---- MODULE Spec2Model ----
(***************************************************************************)
(* Model of the document-to-dashboard backend (backend/routes/api.js and   *)
(* the AIService it bundles).  Document text is kept as a run-length       *)
(* encoded string over the alphabet { x (letter), 7 (digit), ".", " ",     *)
(* "$", "%", newline }, so that lengths, splits, trims and concatenations  *)
(* are the ones the JavaScript computes and the token limits keep their    *)
(* real values.  Model responses that are decoded as JSON are plain        *)
(* sequences of one-character strings.                                     *)
(***************************************************************************)
EXTENDS Integers, Sequences, FiniteSets, TLC

\* ------------------------------------------------------------------------
\* Run-length encoded strings: a sequence of runs [c |-> char, n |-> count],
\* counts positive, adjacent runs of different characters.
\* ------------------------------------------------------------------------
NL == "\n"

Run(c, n) == [c |-> c, n |-> n]

RECURSIVE Norm(_)
Norm(s) ==
  IF s = <<>> THEN <<>>
  ELSE IF Head(s).n = 0 THEN Norm(Tail(s))
  ELSE LET r == Norm(Tail(s)) IN
       IF r # <<>> /\ Head(r).c = Head(s).c
       THEN <<Run(Head(s).c, Head(s).n + Head(r).n)>> \o Tail(r)
       ELSE <<Head(s)>> \o r

\* String.prototype.length
RECURSIVE StrLen(_)
StrLen(s) == IF s = <<>> THEN 0 ELSE Head(s).n + StrLen(Tail(s))

\* a + b, for a and b in normal form: only the two runs that meet can merge
Cat(a, b) ==
  IF a = <<>> THEN b
  ELSE IF b = <<>> THEN a
  ELSE IF a[Len(a)].c = b[1].c
  THEN SubSeq(a, 1, Len(a) - 1) \o <<Run(b[1].c, a[Len(a)].n + b[1].n)>> \o Tail(b)
  ELSE a \o b

\* s.substring(0, k)
RECURSIVE Substring0(_, _)
Substring0(s, k) ==
  IF s = <<>> \/ k <= 0 THEN <<>>
  ELSE IF Head(s).n >= k THEN <<Run(Head(s).c, k)>>
  ELSE <<Head(s)>> \o Substring0(Tail(s), k - Head(s).n)

IsWs(c) == c \in {" ", NL}

RECURSIVE TrimLeft(_)
TrimLeft(s) == IF s # <<>> /\ IsWs(Head(s).c) THEN TrimLeft(Tail(s)) ELSE s

RECURSIVE TrimRight(_)
TrimRight(s) ==
  IF s # <<>> /\ IsWs(s[Len(s)].c) THEN TrimRight(SubSeq(s, 1, Len(s) - 1)) ELSE s

\* String.prototype.trim
TrimStr(s) == TrimRight(TrimLeft(s))

IsDigit(c) == c = "7"

\* /\d/.test(s)
HasDigit(s) == \E i \in 1..Len(s) : IsDigit(s[i].c)

\* s.split('\n'): every newline character separates, so a run of k newlines
\* leaves k-1 empty strings between its neighbours.
RECURSIVE SplitLinesAcc(_, _, _)
SplitLinesAcc(s, cur, acc) ==
  IF s = <<>> THEN Append(acc, cur)
  ELSE IF Head(s).c = NL
       THEN SplitLinesAcc(Tail(s), <<>>,
              Append(acc, cur) \o [i \in 1..(Head(s).n - 1) |-> <<>>])
       ELSE SplitLinesAcc(Tail(s), Append(cur, Head(s)), acc)

SplitLines(s) == SplitLinesAcc(s, <<>>, <<>>)

\* s.split(/[.!?]+/): a maximal run of sentence punctuation separates.
IsSentenceEnd(c) == c \in {".", "!", "?"}

RECURSIVE SplitSentencesAcc(_, _, _, _)
SplitSentencesAcc(s, cur, acc, inSep) ==
  IF s = <<>> THEN Append(acc, cur)
  ELSE IF IsSentenceEnd(Head(s).c)
       THEN IF inSep THEN SplitSentencesAcc(Tail(s), <<>>, acc, TRUE)
            ELSE SplitSentencesAcc(Tail(s), <<>>, Append(acc, cur), TRUE)
       ELSE SplitSentencesAcc(Tail(s), Append(cur, Head(s)), acc, FALSE)

SplitSentences(s) == SplitSentencesAcc(s, <<>>, <<>>, FALSE)

\* lines.join('\n')
RECURSIVE JoinLines(_)
JoinLines(ls) ==
  IF ls = <<>> THEN <<>>
  ELSE IF Len(ls) = 1 THEN ls[1]
  ELSE Cat(Cat(ls[1], <<Run(NL, 1)>>), JoinLines(Tail(ls)))

\* ------------------------------------------------------------------------
\* AIService: token limits and text reduction (aiService.js, enhanced variant)
\* ------------------------------------------------------------------------
maxInputTokens == 8000
safeTextLimit == 6000

\* estimateTokens(text): Math.ceil(text.length / 4)
EstimateTokensOfLen(n) == (n + 3) \div 4

estimateTokens(text) == EstimateTokensOfLen(StrLen(text))

NonBlank(s) == StrLen(TrimStr(s)) > 0

\* the for-loop of chunkText over the sentences
RECURSIVE ChunkLoop(_, _, _, _)
ChunkLoop(sentences, currentChunk, chunks, maxChunkSize) ==
  IF sentences = <<>>
  THEN IF StrLen(TrimStr(currentChunk)) > 0
       THEN Append(chunks, TrimStr(currentChunk))
       ELSE chunks
  ELSE LET sentence == Head(sentences) IN
       IF StrLen(Cat(currentChunk, sentence)) > maxChunkSize /\ StrLen(currentChunk) > 0
       THEN ChunkLoop(Tail(sentences), sentence,
                      Append(chunks, TrimStr(currentChunk)), maxChunkSize)
       ELSE ChunkLoop(Tail(sentences),
                      Cat(currentChunk, Cat(sentence, <<Run(".", 1), Run(" ", 1)>>)),
                      chunks, maxChunkSize)

chunkText(text, maxChunkSize) ==
  ChunkLoop(SelectSeq(SplitSentences(text), NonBlank), <<>>, <<>>, maxChunkSize)

\* containsNumericalData(line): every one of the ten patterns needs a digit,
\* and /\d{1,3}(,\d{3})*/ matches as soon as there is one.
containsNumericalData(line) == HasDigit(line)

RECURSIVE TrimAll(_)
TrimAll(ls) == IF ls = <<>> THEN <<>> ELSE <<TrimStr(Head(ls))>> \o TrimAll(Tail(ls))

extractNumericalContent(text) ==
  JoinLines(TrimAll(SelectSeq(SplitLines(text), containsNumericalData)))

\* scoreChunkForDashboardData(chunk).  Over the model's alphabet the pattern
\* with "|" and the keyword patterns have nothing to match; the
\* grouped-number pattern /\d{1,3}(,\d{3})*/g takes ceil(n/3) matches out of a
\* run of n digits.
RECURSIVE DigitMatches(_)
DigitMatches(s) ==
  IF s = <<>> THEN 0
  ELSE (IF IsDigit(Head(s).c) THEN (Head(s).n + 2) \div 3 ELSE 0) + DigitMatches(Tail(s))

RECURSIVE DigitCount(_)
DigitCount(s) ==
  IF s = <<>> THEN 0
  ELSE (IF IsDigit(Head(s).c) THEN Head(s).n ELSE 0) + DigitCount(Tail(s))

\* line.split(/\s+/).length
WsSplitLength(line) == Cardinality({i \in 1..Len(line) : IsWs(line[i].c)}) + 1

\* (line.includes('|') && /\d/.test(line)) ||
\* (line.split(/\s+/).length > 3 && /\d.*\d/.test(line))
IsTableLine(line) == WsSplitLength(line) > 3 /\ DigitCount(line) >= 2

\* matches of /\$[\d,]+\.?\d*/g: one for each "$" that a digit follows
CurrencyMatches(s) ==
  Cardinality({i \in 1..(Len(s) - 1) : s[i].c = "$" /\ IsDigit(s[i + 1].c)})

\* matches of /\d+\.?\d*%/g: one for each "%" that follows digits, or
\* digits and a point
PercentMatches(s) ==
  Cardinality({i \in 2..Len(s) :
                 /\ s[i].c = "%"
                 /\ \/ IsDigit(s[i - 1].c)
                    \/ i > 2 /\ s[i - 1] = Run(".", 1) /\ IsDigit(s[i - 2].c)})

scoreChunkForDashboardData(chunk) ==
  CurrencyMatches(chunk) + PercentMatches(chunk) + DigitMatches(chunk)
    + 2 * Len(SelectSeq(SplitLines(chunk), IsTableLine))

\* Array.prototype.sort((a, b) => b.score - a.score): stable, descending
RECURSIVE InsertByScore(_, _)
InsertByScore(x, sorted) ==
  IF sorted = <<>> THEN <<x>>
  ELSE IF Head(sorted).score >= x.score
       THEN <<Head(sorted)>> \o InsertByScore(x, Tail(sorted))
       ELSE <<x>> \o sorted

RECURSIVE SortByScore(_, _)
SortByScore(rest, sorted) ==
  IF rest = <<>> THEN sorted
  ELSE SortByScore(Tail(rest), InsertByScore(Head(rest), sorted))

\* the greedy for-loop of selectBestChunks
RECURSIVE SelectLoop(_, _, _)
SelectLoop(scoredChunks, selectedContent, totalTokens) ==
  IF scoredChunks = <<>> THEN selectedContent
  ELSE LET chunk == Head(scoredChunks)
           chunkTokens == estimateTokens(chunk.content)
       IN IF totalTokens + chunkTokens <= safeTextLimit
          THEN SelectLoop(Tail(scoredChunks),
                          Cat(selectedContent, Cat(chunk.content, <<Run(NL, 2)>>)),
                          totalTokens + chunkTokens)
          ELSE selectedContent

BestChunkSize == 4000

\* chunks.map(chunk => ({content, score}))
ScoreChunks(chunks) ==
  [i \in 1..Len(chunks) |->
     [content |-> chunks[i], score |-> scoreChunkForDashboardData(chunks[i])]]

selectBestChunks(text) ==
  SelectLoop(SortByScore(ScoreChunks(chunkText(text, BestChunkSize)), <<>>), <<>>, 0)

\* preprocessLargeText up to its first await: either the value it returns, or
\* the text it hands to summarizePreservingData.
ReduceLargeText(text, numericalContent) ==
  IF StrLen(numericalContent) > 0 /\ estimateTokens(numericalContent) <= safeTextLimit
  THEN [kind |-> "return", strategy |-> "numericFilter", content |-> numericalContent]
  ELSE IF StrLen(numericalContent) > 0
  THEN [kind |-> "summarize", strategy |-> "aiSummarize", content |-> numericalContent]
  ELSE [kind |-> "return", strategy |-> "bestChunks", content |-> selectBestChunks(text)]

\* preprocessLargeText with the limit itself counted as too large
preprocessLargeText_StrictLimit(text) ==
  IF estimateTokens(text) < safeTextLimit
  THEN [kind |-> "return", strategy |-> "asIs", content |-> text]
  ELSE ReduceLargeText(text, extractNumericalContent(text))

preprocessLargeText(text) ==
  IF estimateTokens(text) <= safeTextLimit
  THEN [kind |-> "return", strategy |-> "asIs", content |-> text]
  ELSE ReduceLargeText(text, extractNumericalContent(text))

\* ------------------------------------------------------------------------
\* JavaScript values.  A string value holds a sequence of one-character
\* strings; an object holds its members in insertion order.
\* ------------------------------------------------------------------------
Undefined == [t |-> "undef"]
Null == [t |-> "null"]
Bool(b) == [t |-> "bool", b |-> b]
Num(n) == [t |-> "num", n |-> n]
Str(s) == [t |-> "str", s |-> s]
Arr(a) == [t |-> "arr", a |-> a]
Obj(m) == [t |-> "obj", m |-> m]

\* the truthiness test of `if (v)` / `!v` / `v || d`
Truthy(v) ==
  CASE v.t = "undef" -> FALSE
    [] v.t = "null" -> FALSE
    [] v.t = "bool" -> v.b
    [] v.t = "num" -> v.n # 0
    [] v.t = "str" -> v.s # <<>>
    [] OTHER -> TRUE

\* v.key fails with a TypeError on null and undefined
CanRead(v) == v.t \notin {"undef", "null"}

\* v.key for a value that can be read: own members of an object, undefined
\* for a key that primitives and arrays do not have.
Member(v, key) ==
  IF v.t = "obj" /\ \E i \in 1..Len(v.m) : v.m[i].k = key
  THEN v.m[CHOOSE i \in 1..Len(v.m) : v.m[i].k = key].v
  ELSE Undefined

\* ------------------------------------------------------------------------
\* JSON.parse over sequences of characters: objects, arrays, strings with
\* escapes, unsigned integers, true, false, null.  (Inputs of the model carry
\* no sign, fraction or exponent, and \u escapes stay in printable ASCII.)
\* ------------------------------------------------------------------------
DigitChars == <<"0", "1", "2", "3", "4", "5", "6", "7", "8", "9">>

IsDigitCh(c) == \E d \in 1..10 : DigitChars[d] = c

DigitVal(c) == (CHOOSE d \in 1..10 : DigitChars[d] = c) - 1

HexChars == <<"0", "1", "2", "3", "4", "5", "6", "7", "8", "9",
              "a", "b", "c", "d", "e", "f">>
HexUpper == <<"0", "1", "2", "3", "4", "5", "6", "7", "8", "9",
              "A", "B", "C", "D", "E", "F">>

IsHexCh(c) == \E d \in 1..16 : HexChars[d] = c \/ HexUpper[d] = c

HexVal(c) == (CHOOSE d \in 1..16 : HexChars[d] = c \/ HexUpper[d] = c) - 1

\* the backquote character (a TLA+ string cannot hold it)
BQ == "backquote"

\* printable ASCII, code 32 .. 126
AsciiTable ==
  <<" ", "!", "\"", "#", "$", "%", "&", "'", "(", ")", "*", "+", ",", "-", ".", "/",
    "0", "1", "2", "3", "4", "5", "6", "7", "8", "9", ":", ";", "<", "=", ">", "?",
    "@", "A", "B", "C", "D", "E", "F", "G", "H", "I", "J", "K", "L", "M", "N", "O",
    "P", "Q", "R", "S", "T", "U", "V", "W", "X", "Y", "Z", "[", "\\", "]", "^", "_",
    BQ, "a", "b", "c", "d", "e", "f", "g", "h", "i", "j", "k", "l", "m", "n", "o",
    "p", "q", "r", "s", "t", "u", "v", "w", "x", "y", "z", "{", "|", "}", "~">>

IsControlCh(c) == c \in {"\n", "\t", "\r", "\f"}

\* JSON whitespace (also what trim and \s take off)
IsWsCh(c) == c \in {" ", "\n", "\t", "\r"}

RECURSIVE SkipWs(_, _)
SkipWs(s, i) == IF i <= Len(s) /\ IsWsCh(s[i]) THEN SkipWs(s, i + 1) ELSE i

ParseFail == [ok |-> FALSE]
ParseOk(v, i) == [ok |-> TRUE, v |-> v, i |-> i]

StartsWithAt(s, i, w) ==
  /\ i + Len(w) - 1 <= Len(s)
  /\ \A k \in 1..Len(w) : s[i + k - 1] = w[k]

\* the least position of a set of positions, or `none` for the empty set
FirstIn(at, none) == IF at = {} THEN none ELSE CHOOSE p \in at : \A q \in at : p <= q

\* a character a string literal holds as it stands
IsPlainCh(c) == c # "\"" /\ c # "\\" /\ ~IsControlCh(c)

\* where the plain characters starting at i end: the first position that
\* closes the literal, starts an escape or is not allowed (Len(s) + 1: none)
PlainEnd(s, i) == FirstIn({p \in i..Len(s) : ~IsPlainCh(s[p])}, Len(s) + 1)

\* the characters of a string literal after its opening quote, plain
\* characters taken a run at a time
RECURSIVE ParseStringBody(_, _, _)
ParsePlain(s, i, e, acc) == ParseStringBody(s, e, acc \o SubSeq(s, i, e - 1))

ParseStringBody(s, i, acc) ==
  IF i > Len(s) THEN ParseFail
  ELSE IF s[i] = "\"" THEN ParseOk(acc, i + 1)
  ELSE IF IsControlCh(s[i]) THEN ParseFail
  ELSE IF s[i] # "\\" THEN ParsePlain(s, i, PlainEnd(s, i), acc)
  ELSE IF i + 1 > Len(s) THEN ParseFail
  ELSE LET e == s[i + 1] IN
       IF e \in {"\"", "\\", "/"} THEN ParseStringBody(s, i + 2, Append(acc, e))
       ELSE IF e = "n" THEN ParseStringBody(s, i + 2, Append(acc, "\n"))
       ELSE IF e = "t" THEN ParseStringBody(s, i + 2, Append(acc, "\t"))
       ELSE IF e = "r" THEN ParseStringBody(s, i + 2, Append(acc, "\r"))
       ELSE IF e = "f" THEN ParseStringBody(s, i + 2, Append(acc, "\f"))
       ELSE IF e = "u" /\ i + 5 <= Len(s) /\ \A k \in 2..5 : IsHexCh(s[i + k])
       THEN LET code == 4096 * HexVal(s[i + 2]) + 256 * HexVal(s[i + 3])
                        + 16 * HexVal(s[i + 4]) + HexVal(s[i + 5])
            IN IF code >= 32 /\ code <= 126
               THEN ParseStringBody(s, i + 6, Append(acc, AsciiTable[code - 31]))
               ELSE ParseFail
       ELSE ParseFail

RECURSIVE ParseDigits(_, _, _)
ParseDigits(s, i, n) ==
  IF i <= Len(s) /\ IsDigitCh(s[i])
  THEN ParseDigits(s, i + 1, 10 * n + DigitVal(s[i]))
  ELSE ParseOk(Num(n), i)

\* last value wins for a repeated key, at the key's first position
PutMember(m, k, v) ==
  IF \E i \in 1..Len(m) : m[i].k = k
  THEN [i \in 1..Len(m) |-> IF m[i].k = k THEN [k |-> k, v |-> v] ELSE m[i]]
  ELSE Append(m, [k |-> k, v |-> v])

RECURSIVE ParseValue(_, _)
RECURSIVE ParseMembers(_, _, _)
RECURSIVE ParseElements(_, _, _)

\* a value starting at or after position i (leading whitespace skipped); the
\* result carries the position after the value
ParseValue(s, i0) ==
  LET i == SkipWs(s, i0) IN
  IF i > Len(s) THEN ParseFail
  ELSE IF s[i] = "{"
       THEN LET j == SkipWs(s, i + 1) IN
            IF j <= Len(s) /\ s[j] = "}" THEN ParseOk(Obj(<<>>), j + 1)
            ELSE ParseMembers(s, j, <<>>)
  ELSE IF s[i] = "["
       THEN LET j == SkipWs(s, i + 1) IN
            IF j <= Len(s) /\ s[j] = "]" THEN ParseOk(Arr(<<>>), j + 1)
            ELSE ParseElements(s, j, <<>>)
  ELSE IF s[i] = "\""
       THEN LET r == ParseStringBody(s, i + 1, <<>>) IN
            IF r.ok THEN ParseOk(Str(r.v), r.i) ELSE ParseFail
  ELSE IF s[i] = "0" THEN ParseOk(Num(0), i + 1)
  ELSE IF IsDigitCh(s[i]) THEN ParseDigits(s, i, 0)
  ELSE IF StartsWithAt(s, i, <<"t", "r", "u", "e">>) THEN ParseOk(Bool(TRUE), i + 4)
  ELSE IF StartsWithAt(s, i, <<"f", "a", "l", "s", "e">>) THEN ParseOk(Bool(FALSE), i + 5)
  ELSE IF StartsWithAt(s, i, <<"n", "u", "l", "l">>) THEN ParseOk(Null, i + 4)
  ELSE ParseFail

\* "key" : value, then "," and another member or "}"
ParseMembers(s, i, acc) ==
  IF i > Len(s) \/ s[i] # "\"" THEN ParseFail
  ELSE LET k == ParseStringBody(s, i + 1, <<>>) IN
       IF ~k.ok THEN ParseFail
       ELSE LET c == SkipWs(s, k.i) IN
            IF c > Len(s) \/ s[c] # ":" THEN ParseFail
            ELSE LET v == ParseValue(s, c + 1) IN
                 IF ~v.ok THEN ParseFail
                 ELSE LET e == SkipWs(s, v.i)
                          m == PutMember(acc, k.v, v.v)
                      IN IF e > Len(s) THEN ParseFail
                         ELSE IF s[e] = "}" THEN ParseOk(Obj(m), e + 1)
                         ELSE IF s[e] = "," THEN ParseMembers(s, SkipWs(s, e + 1), m)
                         ELSE ParseFail

\* value, then "," and another element or "]"
ParseElements(s, i, acc) ==
  LET v == ParseValue(s, i) IN
  IF ~v.ok THEN ParseFail
  ELSE LET e == SkipWs(s, v.i)
           a == Append(acc, v.v)
       IN IF e > Len(s) THEN ParseFail
          ELSE IF s[e] = "]" THEN ParseOk(Arr(a), e + 1)
          ELSE IF s[e] = "," THEN ParseElements(s, e + 1, a)
          ELSE ParseFail

\* JSON.parse(text): one value and nothing but whitespace after it
WholeInput(s, r) ==
  IF r.ok /\ SkipWs(s, r.i) > Len(s) THEN [ok |-> TRUE, v |-> r.v] ELSE ParseFail

JSONParse(s) == WholeInput(s, ParseValue(s, 1))

\* ------------------------------------------------------------------------
\* JSON.stringify of a parsed value
\* ------------------------------------------------------------------------
RECURSIVE NumToChars(_)
NumToChars(n) ==
  IF n < 10 THEN <<DigitChars[n + 1]>>
  ELSE Append(NumToChars(n \div 10), DigitChars[(n % 10) + 1])

EscapeCh(c) ==
  CASE c = "\"" -> <<"\\", "\"">>
    [] c = "\\" -> <<"\\", "\\">>
    [] c = "\n" -> <<"\\", "n">>
    [] c = "\t" -> <<"\\", "t">>
    [] c = "\r" -> <<"\\", "r">>
    [] c = "\f" -> <<"\\", "f">>
    [] OTHER -> <<c>>

NeedsEscape(c) == EscapeCh(c) # <<c>>

\* every character escaped as JSON.stringify does it, the characters before
\* the first escaped one (at p; Len(s) + 1: none) copied as a run
RECURSIVE QuoteBody(_)
QuoteFrom(s, p) ==
  IF p > Len(s) THEN s
  ELSE SubSeq(s, 1, p - 1) \o EscapeCh(s[p]) \o QuoteBody(SubSeq(s, p + 1, Len(s)))

QuoteBody(s) == QuoteFrom(s, FirstIn({p \in 1..Len(s) : NeedsEscape(s[p])}, Len(s) + 1))

Quote(s) == <<"\"">> \o QuoteBody(s) \o <<"\"">>

RECURSIVE JSONStringify(_)
RECURSIVE StringifyElements(_)
RECURSIVE StringifyMembers(_)

JSONStringify(v) ==
  CASE v.t = "null" -> <<"n", "u", "l", "l">>
    [] v.t = "bool" -> IF v.b THEN <<"t", "r", "u", "e">> ELSE <<"f", "a", "l", "s", "e">>
    [] v.t = "num" -> NumToChars(v.n)
    [] v.t = "str" -> Quote(v.s)
    [] v.t = "arr" -> <<"[">> \o StringifyElements(v.a) \o <<"]">>
    [] v.t = "obj" -> <<"{">> \o StringifyMembers(v.m) \o <<"}">>

StringifyElements(a) ==
  IF a = <<>> THEN <<>>
  ELSE IF Len(a) = 1 THEN JSONStringify(a[1])
  ELSE JSONStringify(a[1]) \o <<",">> \o StringifyElements(Tail(a))

StringifyMembers(m) ==
  IF m = <<>> THEN <<>>
  ELSE LET one == Quote(m[1].k) \o <<":">> \o JSONStringify(m[1].v) IN
       IF Len(m) = 1 THEN one ELSE one \o <<",">> \o StringifyMembers(Tail(m))

\* ------------------------------------------------------------------------
\* AIService.parseJSONResponse
\* ------------------------------------------------------------------------
\* what \s and String.prototype.trim take for white space
IsJsSpace(c) == c \in {" ", "\n", "\t", "\r", "\f"}

RECURSIVE SkipSpace(_, _)
SkipSpace(s, i) == IF i <= Len(s) /\ IsJsSpace(s[i]) THEN SkipSpace(s, i + 1) ELSE i

RECURSIVE LastNonSpace(_, _)
LastNonSpace(s, i) == IF i >= 1 /\ IsJsSpace(s[i]) THEN LastNonSpace(s, i - 1) ELSE i

\* response.trim()
TrimChars(s) == SubSeq(s, SkipSpace(s, 1), LastNonSpace(s, Len(s)))

\* s.replace(/<fence>\s*/g, ''): every occurrence, left to right, from
\* position i on; p is the next occurrence (Len(s) + 1: none)
RECURSIVE RemoveAll(_, _, _)
RemoveNext(s, i, p, fence) ==
  IF p > Len(s) THEN SubSeq(s, i, Len(s))
  ELSE SubSeq(s, i, p - 1) \o RemoveAll(s, SkipSpace(s, p + Len(fence)), fence)

RemoveAll(s, i, fence) ==
  RemoveNext(s, i, FirstIn({p \in i..Len(s) : StartsWithAt(s, p, fence)}, Len(s) + 1), fence)

FenceJson == <<BQ, BQ, BQ, "j", "s", "o", "n">>
Fence == <<BQ, BQ, BQ>>

\* the two replace calls that remove the markdown formatting
StripFences(s) == RemoveAll(RemoveAll(s, 1, FenceJson), 1, Fence)

\* s.indexOf(c) and s.lastIndexOf(c), -1 when absent
IndexOf(s, c) ==
  IF \E i \in 1..Len(s) : s[i] = c
  THEN (CHOOSE i \in 1..Len(s) : s[i] = c /\ \A j \in 1..(i - 1) : s[j] # c) - 1
  ELSE -1

LastIndexOf(s, c) ==
  IF \E i \in 1..Len(s) : s[i] = c
  THEN (CHOOSE i \in 1..Len(s) : s[i] = c /\ \A j \in (i + 1)..Len(s) : s[j] # c) - 1
  ELSE -1

\* s.substring(a, b): the arguments are swapped when a > b
Substring(s, a, b) == IF a <= b THEN SubSeq(s, a + 1, b) ELSE SubSeq(s, b + 1, a)

\* the text handed to JSON.parse
ExtractJSON(s) ==
  LET jsonStart == IndexOf(s, "{")
      jsonEnd == LastIndexOf(s, "}")
  IN IF jsonStart # -1 /\ jsonEnd # -1 THEN Substring(s, jsonStart, jsonEnd + 1) ELSE s

\* parseJSONResponse(response): the parsed value, or the error thrown.  For a
\* response that is not a string, trim() throws inside the try and the catch
\* block throws again on response.substring, so a TypeError leaves the method.
ParsedOrInvalid(r) ==
  IF r.ok THEN [ok |-> TRUE, v |-> r.v] ELSE [ok |-> FALSE, err |-> "InvalidJSON"]

parseJSONResponse(response) ==
  IF response.t # "str" THEN [ok |-> FALSE, err |-> "TypeError"]
  ELSE ParsedOrInvalid(JSONParse(ExtractJSON(StripFences(TrimChars(response.s)))))

\* ------------------------------------------------------------------------
\* Prompts.  A prompt is kept as its stage, the document text and the other
\* text it embeds, and its length: the template's fixed characters plus the
\* embedded ones.
\* ------------------------------------------------------------------------
SummarizeTemplateLen == 501
ExtractTemplateLen == 804
ClassifyTemplateLen == 414
ConfigTemplateLen == 498
SummarizeInputChars == 6000
PreviewChars == 4000
MinRecords == 2
SampleRecords == 3

Prompt(stage, text, extra, fixed) ==
  [stage |-> stage, text |-> text, extra |-> extra,
   len |-> fixed + StrLen(text) + Len(extra)]

\* summarizePreservingData: the prompt around text.substring(0, 6000)
SummarizePrompt(text) ==
  Prompt("summarize", Substring0(text, SummarizeInputChars), <<>>, SummarizeTemplateLen)

TruncatedMarker ==
  <<Run(".", 3), Run("[", 1), Run("t", 1), Run("r", 1), Run("u", 1), Run("n", 1),
    Run("c", 1), Run("a", 1), Run("t", 1), Run("e", 1), Run("d", 1), Run("]", 1)>>

\* checkDataAvailability: the preview and the prompt around it
CheckText(text) ==
  IF StrLen(text) > PreviewChars
  THEN Cat(Substring0(text, PreviewChars), TruncatedMarker)
  ELSE text

ClassifyPrompt(text) ==
  Prompt("classify", CheckText(text), NumToChars(StrLen(text)), ClassifyTemplateLen)

ObjectObject ==
  <<"[", "o", "b", "j", "e", "c", "t", " ", "O", "b", "j", "e", "c", "t", "]">>

\* String(v) as Array.prototype.join applies it to an element
RECURSIVE JoinChars(_, _)
ElementChars(v) ==
  CASE v.t \in {"null", "undef"} -> <<>>
    [] v.t = "str" -> v.s
    [] v.t = "num" -> NumToChars(v.n)
    [] v.t = "bool" -> IF v.b THEN <<"t", "r", "u", "e">> ELSE <<"f", "a", "l", "s", "e">>
    [] v.t = "arr" -> JoinChars(v.a, <<",">>)
    [] OTHER -> ObjectObject

\* a.join(sep)
JoinChars(a, sep) ==
  IF a = <<>> THEN <<>>
  ELSE IF Len(a) = 1 THEN ElementChars(a[1])
  ELSE ElementChars(a[1]) \o sep \o JoinChars(Tail(a), sep)

K_hasData == <<"h", "a", "s", "D", "a", "t", "a">>
K_reason == <<"r", "e", "a", "s", "o", "n">>
K_insights == <<"i", "n", "s", "i", "g", "h", "t", "s">>
K_data == <<"d", "a", "t", "a">>
K_schema == <<"s", "c", "h", "e", "m", "a">>

\* extractStructuredDataWithChunking: the prompt around the insights and the
\* processed text
ExtractPrompt(processedText, analysisResult) ==
  Prompt("extract", processedText,
         JoinChars(Member(analysisResult, K_insights).a, <<",", " ">>), ExtractTemplateLen)

\* JSON.stringify(x) inside a template literal; undefined prints as "undefined"
TemplateJSON(v) ==
  IF v.t = "undef" THEN <<"u", "n", "d", "e", "f", "i", "n", "e", "d">> ELSE JSONStringify(v)

\* generateDashboardConfig: the prompt around the sample, the schema and the
\* record count
ConfigPrompt(structuredData) ==
  LET data == Member(structuredData, K_data).a
      sample == Arr(SubSeq(data, 1, IF Len(data) < SampleRecords THEN Len(data) ELSE SampleRecords))
  IN Prompt("config", <<>>,
            TemplateJSON(sample) \o TemplateJSON(Member(structuredData, K_schema))
              \o NumToChars(Len(data)),
            ConfigTemplateLen)

DefaultReasonChars ==
  <<"N", "o", " ", "n", "u", "m", "e", "r", "i", "c", "a", "l", " ", "o", "r", " ", "t",
    "a", "b", "u", "l", "a", "r", " ", "d", "a", "t", "a", " ", "f", "o", "u", "n", "d",
    " ", "s", "u", "i", "t", "a", "b", "l", "e", " ", "f", "o", "r", " ", "d", "a", "s",
    "h", "b", "o", "a", "r", "d", " ", "c", "r", "e", "a", "t", "i", "o", "n">>

\* ------------------------------------------------------------------------
\* What the remote service can answer
\* ------------------------------------------------------------------------
\* {"hasData":true,"insights":["revenue data","q"]}
RawDataFound ==
  <<"{", "\"", "h", "a", "s", "D", "a", "t", "a", "\"", ":", "t", "r", "u", "e", ",", "\"",
    "i", "n", "s", "i", "g", "h", "t", "s", "\"", ":", "[", "\"", "r", "e", "v", "e", "n",
    "u", "e", " ", "d", "a", "t", "a", "\"", ",", "\"", "q", "\"", "]", "}">>

\* {"hasData":true,"reason":"table"}
RawDataFoundNoInsights ==
  <<"{", "\"", "h", "a", "s", "D", "a", "t", "a", "\"", ":", "t", "r", "u", "e", ",", "\"",
    "r", "e", "a", "s", "o", "n", "\"", ":", "\"", "t", "a", "b", "l", "e", "\"", "}">>

\* Result:\n```json\n{"hasData":false,"reason":"prose"}\n```
RawNoData ==
  <<"R", "e", "s", "u", "l", "t", ":", "\n", BQ, BQ, BQ, "j", "s", "o", "n", "\n", "{",
    "\"", "h", "a", "s", "D", "a", "t", "a", "\"", ":", "f", "a", "l", "s", "e", ",", "\"",
    "r", "e", "a", "s", "o", "n", "\"", ":", "\"", "p", "r", "o", "s", "e", "\"", "}",
    "\n", BQ, BQ, BQ>>

\* {"hasData":0}
RawNoDataZero ==
  <<"{", "\"", "h", "a", "s", "D", "a", "t", "a", "\"", ":", "0", "}">>

\* [1]
RawArray ==
  <<"[", "1", "]">>

\* null
RawNull ==
  <<"n", "u", "l", "l">>

\* no data here
RawProse ==
  <<"n", "o", " ", "d", "a", "t", "a", " ", "h", "e", "r", "e">>

\* {"data":[{"c":"Q1","r":5},{"c":"Q2","r":6}],"schema":{"m":"r"}}
RawTwoRecords ==
  <<"{", "\"", "d", "a", "t", "a", "\"", ":", "[", "{", "\"", "c", "\"", ":", "\"", "Q",
    "1", "\"", ",", "\"", "r", "\"", ":", "5", "}", ",", "{", "\"", "c", "\"", ":", "\"",
    "Q", "2", "\"", ",", "\"", "r", "\"", ":", "6", "}", "]", ",", "\"", "s", "c", "h",
    "e", "m", "a", "\"", ":", "{", "\"", "m", "\"", ":", "\"", "r", "\"", "}", "}">>

\* {"data":[{"c":"Q1","r":5}]}
RawOneRecord ==
  <<"{", "\"", "d", "a", "t", "a", "\"", ":", "[", "{", "\"", "c", "\"", ":", "\"", "Q",
    "1", "\"", ",", "\"", "r", "\"", ":", "5", "}", "]", "}">>

\* {"data":{"c":"Q1"}}
RawDataNotArray ==
  <<"{", "\"", "d", "a", "t", "a", "\"", ":", "{", "\"", "c", "\"", ":", "\"", "Q", "1",
    "\"", "}", "}">>

\* ```json\n{"kpis":[],"charts":[]}\n```
RawConfig ==
  <<BQ, BQ, BQ, "j", "s", "o", "n", "\n", "{", "\"", "k", "p", "i", "s", "\"", ":", "[",
    "]", ",", "\"", "c", "h", "a", "r", "t", "s", "\"", ":", "[", "]", "}", "\n", BQ, BQ,
    BQ>>

\* document-like text returned as the content of a summarization answer
Text(r) == [t |-> "text", r |-> r]

GatewayFailures == {"rejectedToken", "rejected", "noResponse", "noChoices"}

SummaryAnswers ==
  {Text(<<>>), Text(<<Run("7", 40)>>), Text(<<Run("7", 24001)>>), Text(<<Run("7", 40000)>>)}

ClassifyAnswers ==
  {Str(RawDataFound), Str(RawDataFoundNoInsights), Str(RawNoData), Str(RawNoDataZero),
   Str(RawArray), Str(RawNull), Str(RawProse)}

ExtractAnswers ==
  {Str(RawTwoRecords), Str(RawOneRecord), Str(RawDataNotArray), Str(RawNull), Str(RawProse)}

ConfigAnswers == {Str(RawConfig), Str(RawArray), Str(RawProse)}

AnswersFor(stage) ==
  CASE stage = "summarize" -> SummaryAnswers
    [] stage = "classify" -> ClassifyAnswers
    [] stage = "extract" -> ExtractAnswers
    [] stage = "config" -> ConfigAnswers

\* the outcome of the axios.post of one request
RemoteOutcomes(stage) ==
  [kind : GatewayFailures \cup {"noContent"}]
    \cup {[kind |-> "content", value |-> v] : v \in AnswersFor(stage)}

\* ------------------------------------------------------------------------
\* AIService.callAI
\* ------------------------------------------------------------------------
\* callAI without its size check
PromptAccepted_NoCheck(prompt) == TRUE

\* the size check made before the request is posted
PromptAccepted(prompt) == EstimateTokensOfLen(prompt.len) <= maxInputTokens

PromptTooLarge == [ok |-> FALSE, err |-> "RequestFailed", cause |-> "PromptTooLarge"]

\* what callAI returns or throws once the post has settled
CallAIResult(outcome) ==
  CASE outcome.kind = "content" -> [ok |-> TRUE, value |-> outcome.value]
    [] outcome.kind = "noContent" -> [ok |-> TRUE, value |-> Undefined]
    [] outcome.kind = "rejectedToken" ->
         [ok |-> FALSE, err |-> "TextTooLong", cause |-> "status400"]
    [] outcome.kind = "rejected" -> [ok |-> FALSE, err |-> "ApiError", cause |-> "status"]
    [] outcome.kind = "noResponse" ->
         [ok |-> FALSE, err |-> "NetworkError", cause |-> "noResponse"]
    [] outcome.kind = "noChoices" ->
         [ok |-> FALSE, err |-> "RequestFailed", cause |-> "TypeError"]

\* ------------------------------------------------------------------------
\* Input documents: lines of one sentence each
\* ------------------------------------------------------------------------
MaxRep == 1

Units ==
  {<<"x", 5>>, <<"7", 5>>, <<"x", 7999>>, <<"x", 23996>>, <<"x", 23999>>,
   <<"x", 24000>>, <<"7", 23999>>}

Rep(u, k) == [i \in 1..k |-> <<Run(u[1], u[2]), Run(".", 1)>>]

Doc(lines) == JoinLines(lines)

\* a line of 99,999 characters holding a currency amount and a percentage:
\* $77...7 77%
DenseLine == <<Run("$", 1), Run("7", 99994), Run(" ", 1), Run("7", 2), Run("%", 1)>>

\* 200,000 characters: two such lines, each ended by a newline
DenseNumericText == Cat(JoinLines(<<DenseLine, DenseLine>>), <<Run(NL, 1)>>)

Texts ==
  {Doc(Rep(u1, i) \o Rep(u2, j)) : u1 \in Units, u2 \in Units, i \in 0..MaxRep, j \in 0..MaxRep}
    \cup {DenseNumericText}

\* ------------------------------------------------------------------------
\* One analyzeDocument pass
\* ------------------------------------------------------------------------
VARIABLES
  apiKey,          \* this.apiKey is set
  pc,              \* "idle", "callAI", "await", "done", "failed"
  call,            \* the callAI invocation under way: stage, caller, prompt, argument
  extractedText,   \* analyzeDocument's argument
  processedText,   \* analyzeDocument's processedText
  analysisResult,  \* the classifier's verdict
  extractionText,  \* extractStructuredDataWithChunking's processedText
  structuredData,  \* the extractor's result
  result,          \* what analyzeDocument returned or threw
  netLog,          \* the requests posted in this pass, in order
  callLog,         \* the callAI invocations settled in this pass
  reductions,      \* the preprocessLargeText invocations settled in this pass
  raw,             \* a raw model response handed to parseJSONResponse
  decoded,         \* what parseJSONResponse made of raw
  redecoded        \* what it made of JSON.stringify of that value

passVars == <<apiKey, pc, call, extractedText, processedText, analysisResult,
              extractionText, structuredData, result, netLog, callLog, reductions>>

decodeVars == <<raw, decoded, redecoded>>

VARIABLES
  exVariant,       \* which AIService is asked to extract: "chunking" or "basic"
  exOutcome,       \* how the extraction request of that service settles
  exResult,        \* what the extractor returned or threw
  calcIn,          \* records and a dashboard config handed to the Calculator
  calcOut,         \* what calculateKPIs, generateChartConfigs and the route made of them
  sessions,        \* the sessions Map of the router: session id -> session data
  created,         \* how many session ids have been made
  now,             \* Date.now(), in milliseconds since the process started
  nextSweep,       \* when the setInterval callback is due next
  lastResponse,    \* the response to the request handled last, or the last sweep's log
  generated        \* the dashboard first returned for each session

extractVars == <<exVariant, exOutcome, exResult>>

calcVars == <<calcIn, calcOut>>

storeVars == <<sessions, created, now, nextSweep, lastResponse, generated>>

VARIABLES
  docVariant,      \* which DocumentProcessor is loaded: "plain", or "limits" (with size limits)
  tesseractWorker, \* this.tesseractWorker: 0 for null, or the number of a worker
  workers,         \* the OCR workers created so far and what has completed on each
  files,           \* the files in the uploads directory
  jobs,            \* each upload's processFile call: where it is and its locals
  ocrLog,          \* the recognize calls made, with the state of the worker at the call
  textIn,          \* an extracted text handed to validateTextSize
  textInfo         \* what validateTextSize returned for it

docVars == <<docVariant, tesseractWorker, workers, files, jobs, ocrLog>>

sizeVars == <<textIn, textInfo>>

fileVars == <<docVars, sizeVars>>

harnessVars == <<extractVars, calcVars, storeVars, fileVars>>

vars == <<passVars, decodeVars, harnessVars>>

NoCall == [stage |-> "none"]
NoResult == [kind |-> "none"]

\* setInterval(..., 60 * 60 * 1000) and maxAge = 24 * 60 * 60 * 1000
SweepPeriod == 60 * 60 * 1000
MaxAge == 24 * 60 * 60 * 1000

NoSessions == <<>>

IdleExtract == exVariant = "none" /\ exOutcome = NoResult /\ exResult = NoResult

IdleCalc == calcIn = NoResult /\ calcOut = NoResult

\* the router module as loaded: an empty Map and the sweep due in an hour
IdleStore ==
  /\ sessions = NoSessions
  /\ created = 0
  /\ now = 0
  /\ nextSweep = SweepPeriod
  /\ lastResponse = NoResult
  /\ generated = NoSessions

\* the DocumentProcessor as constructed, with no upload received
IdleDoc ==
  /\ docVariant = "none"
  /\ tesseractWorker = 0
  /\ workers = <<>>
  /\ files = {}
  /\ jobs = <<>>
  /\ ocrLog = {}

IdleSize == textIn = NoResult /\ textInfo = NoResult

IdleFiles == IdleDoc /\ IdleSize

Pass ==
  [pc |-> pc, call |-> call, extractedText |-> extractedText,
   processedText |-> processedText, analysisResult |-> analysisResult,
   extractionText |-> extractionText, structuredData |-> structuredData,
   result |-> result, netLog |-> netLog, callLog |-> callLog, reductions |-> reductions]

Becomes(p) ==
  /\ pc' = p.pc
  /\ call' = p.call
  /\ extractedText' = p.extractedText
  /\ processedText' = p.processedText
  /\ analysisResult' = p.analysisResult
  /\ extractionText' = p.extractionText
  /\ structuredData' = p.structuredData
  /\ result' = p.result
  /\ netLog' = p.netLog
  /\ callLog' = p.callLog
  /\ reductions' = p.reductions
  /\ UNCHANGED <<apiKey, decodeVars, harnessVars>>

FreshPass(text) ==
  [pc |-> "idle", call |-> NoCall, extractedText |-> text, processedText |-> <<>>,
   analysisResult |-> Undefined, extractionText |-> <<>>, structuredData |-> Undefined,
   result |-> NoResult, netLog |-> <<>>, callLog |-> <<>>, reductions |-> <<>>]

\* analyzeDocument throws: its catch logs and rethrows
Throw(p, stage, cause) ==
  [p EXCEPT !.pc = "failed", !.call = NoCall,
            !.result = [kind |-> "error", stage |-> stage, cause |-> cause]]

\* analyzeDocument returns
Return(p, value) == [p EXCEPT !.pc = "done", !.call = NoCall, !.result = value]

\* await this.callAI(prompt, ...) made by `caller`; arg is the caller's text
Invoke(p, caller, prompt, arg) ==
  [p EXCEPT !.pc = "callAI",
            !.call = [stage |-> prompt.stage, caller |-> caller, prompt |-> prompt, arg |-> arg]]

\* generateDashboardConfig up to its request
generateDashboardConfig(p) == Invoke(p, "config", ConfigPrompt(p.structuredData), <<>>)

\* extractStructuredDataWithChunking once its preprocessLargeText has returned:
\* the prompt (insights.join throws unless insights is an array) and the request
extractAfterPreprocess(p) ==
  IF Member(p.analysisResult, K_insights).t # "arr"
  THEN Throw(p, "extraction", "TypeError")
  ELSE Invoke(p, "extract", ExtractPrompt(p.extractionText, p.analysisResult), <<>>)

\* checkDataAvailability up to its request
checkDataAvailability(p) == Invoke(p, "classify", ClassifyPrompt(p.processedText), <<>>)

\* preprocessLargeText has returned `content` to `caller`, which goes on
PreprocessReturns(p, caller, strategy, content) ==
  LET q == [p EXCEPT !.reductions =
              Append(@, [caller |-> caller, strategy |-> strategy, content |-> content])]
  IN IF caller = "analyze"
     THEN checkDataAvailability([q EXCEPT !.processedText = content])
     ELSE extractAfterPreprocess([q EXCEPT !.extractionText = content])

\* await this.preprocessLargeText(text) made by `caller`
PreprocessStep(p, caller, d) ==
  IF d.kind = "return" THEN PreprocessReturns(p, caller, d.strategy, d.content)
  ELSE Invoke(p, caller, SummarizePrompt(d.content), d.content)

Preprocess(p, caller) == PreprocessStep(p, caller, preprocessLargeText(p.extractedText))

\* summarizePreservingData without its catch: a failed call leaves the pass
AfterSummarize_NoCatch(p, res) ==
  IF res.ok /\ res.value.t = "text"
  THEN PreprocessReturns(p, p.call.caller, "aiSummarize", res.value.r)
  ELSE Throw(p, "reduction", "SummarizeFailed")

\* summarizePreservingData after its callAI settled: the response, or the
\* chunking fallback when the call threw or response.length throws
AfterSummarize(p, res) ==
  IF res.ok /\ res.value.t = "text"
  THEN PreprocessReturns(p, p.call.caller, "aiSummarize", res.value.r)
  ELSE PreprocessReturns(p, p.call.caller, "summarizeFallback", selectBestChunks(p.call.arg))

\* analyzeDocument going on to extraction whatever the verdict says
Classified_IgnoresVerdict(p, analysis) ==
  IF ~CanRead(analysis) THEN Throw(p, "analyze", "TypeError")
  ELSE Preprocess(p, "extract")

\* analyzeDocument once checkDataAvailability has returned the parsed verdict
Classified(p, analysis) ==
  IF ~CanRead(analysis) THEN Throw(p, "analyze", "TypeError")
  ELSE IF Truthy(Member(analysis, K_hasData))
  THEN Preprocess(p, "extract")
  ELSE Return(p, [kind |-> "noData",
                  reason |-> IF Truthy(Member(analysis, K_reason))
                             THEN Member(analysis, K_reason)
                             ELSE Str(DefaultReasonChars)])

\* checkDataAvailability answering "no data" when the verdict does not decode
ClassifyDecoded_AsNoData(p, parsed) ==
  IF ~parsed.ok THEN Return(p, [kind |-> "noData", reason |-> Str(DefaultReasonChars)])
  ELSE Classified([p EXCEPT !.analysisResult = parsed.v], parsed.v)

ClassifyDecoded(p, parsed) ==
  IF ~parsed.ok THEN Throw(p, "classification", parsed.err)
  ELSE Classified([p EXCEPT !.analysisResult = parsed.v], parsed.v)

\* checkDataAvailability after its callAI settled
AfterClassify(p, res) ==
  IF ~res.ok THEN Throw(p, "classification", res.err)
  ELSE ClassifyDecoded(p, parseJSONResponse(res.value))

\* the validation of the decoded extraction and the step to the config stage
ExtractDecoded(p, parsed) ==
  IF ~parsed.ok THEN Throw(p, "extraction", parsed.err)
  ELSE IF ~CanRead(parsed.v) THEN Throw(p, "extraction", "TypeError")
  ELSE IF \/ ~Truthy(Member(parsed.v, K_data))
          \/ Member(parsed.v, K_data).t # "arr"
          \/ Len(Member(parsed.v, K_data).a) < MinRecords
  THEN Throw(p, "extraction", "InsufficientData")
  ELSE generateDashboardConfig([p EXCEPT !.structuredData = parsed.v])

\* extractStructuredDataWithChunking after its callAI settled
AfterExtract(p, res) ==
  IF ~res.ok THEN Throw(p, "extraction", res.err)
  ELSE ExtractDecoded(p, parseJSONResponse(res.value))

ConfigDecoded(p, parsed) ==
  IF ~parsed.ok THEN Throw(p, "config", parsed.err)
  ELSE Return(p, [kind |-> "hasData", data |-> p.structuredData,
                  dashboard |-> parsed.v,
                  insights |-> Member(p.analysisResult, K_insights)])

\* generateDashboardConfig after its callAI settled, and analyzeDocument's return
AfterConfig(p, res) ==
  IF ~res.ok THEN Throw(p, "config", res.err)
  ELSE ConfigDecoded(p, parseJSONResponse(res.value))

\* the caller's code after `await this.callAI(...)`
Continue(p, res) ==
  CASE p.call.stage = "summarize" -> AfterSummarize(p, res)
    [] p.call.stage = "classify" -> AfterClassify(p, res)
    [] p.call.stage = "extract" -> AfterExtract(p, res)
    [] p.call.stage = "config" -> AfterConfig(p, res)

Settled(p, outcome, res) ==
  [p EXCEPT !.callLog = Append(@, [prompt |-> p.call.prompt, caller |-> p.call.caller,
                                     sent |-> outcome # "notSent", outcome |-> outcome,
                                     res |-> res])]

\* callAI up to the post: the prompt is refused, or the request goes out
callAIStart(p) ==
  IF PromptAccepted(p.call.prompt)
  THEN [p EXCEPT !.pc = "await", !.netLog = Append(@, p.call.prompt)]
  ELSE Continue(Settled(p, "notSent", PromptTooLarge), PromptTooLarge)

\* callAI from the settled post on
callAIFinish(p, outcome) ==
  Continue(Settled(p, outcome.kind, CallAIResult(outcome)), CallAIResult(outcome))

\* analyzeDocument up to its first callAI
analyzeDocument(text) ==
  IF ~apiKey THEN Throw(FreshPass(text), "configuration", "NoApiKey")
  ELSE Preprocess(FreshPass(text), "analyze")

InitPass ==
  /\ pc = "idle"
  /\ call = NoCall
  /\ extractedText = <<>>
  /\ processedText = <<>>
  /\ analysisResult = Undefined
  /\ extractionText = <<>>
  /\ structuredData = Undefined
  /\ result = NoResult
  /\ netLog = <<>>
  /\ callLog = <<>>
  /\ reductions = <<>>

Init ==
  /\ apiKey \in BOOLEAN
  /\ InitPass
  /\ raw = <<>>
  /\ decoded = NoResult
  /\ redecoded = NoResult
  /\ IdleExtract /\ IdleCalc /\ IdleStore /\ IdleFiles

AnalyzeDocument ==
  /\ pc = "idle"
  /\ \E text \in Texts : Becomes(analyzeDocument(text))

\* the caller has taken what analyzeDocument returned or threw
PassEnds ==
  /\ pc \in {"done", "failed"}
  /\ Becomes(FreshPass(<<>>))

CallAISend ==
  /\ pc = "callAI"
  /\ Becomes(callAIStart(Pass))

RemoteResponds ==
  /\ pc = "await"
  /\ \E outcome \in RemoteOutcomes(call.stage) : Becomes(callAIFinish(Pass, outcome))

Next == AnalyzeDocument \/ CallAISend \/ RemoteResponds \/ PassEnds

Spec == Init /\ [][Next]_vars

\* ------------------------------------------------------------------------
\* parseJSONResponse on its own: every string over a small alphabet up to
\* MaxRawLen characters, and the longer answers the pipeline uses
\* ------------------------------------------------------------------------
MaxRawLen == 4

DecodeAlphabet == {"{", "}", "[", "]", "1", "\"", BQ}

\* {"a":"\u0060\u0060\u0060"}
RawFenceInString ==
  <<"{", "\"", "a", "\"", ":", "\"", "\\", "u", "0", "0", "6", "0", "\\", "u", "0", "0",
    "6", "0", "\\", "u", "0", "0", "6", "0", "\"", "}">>

\* {"a":"}{","b":[1,{"c":null}]}
RawBraceInString ==
  <<"{", "\"", "a", "\"", ":", "\"", "}", "{", "\"", ",", "\"", "b", "\"", ":", "[", "1",
    ",", "{", "\"", "c", "\"", ":", "n", "u", "l", "l", "}", "]", "}">>

\* Sure: {"a":1} done
RawProseAroundJSON ==
  <<"S", "u", "r", "e", ":", " ", "{", "\"", "a", "\"", ":", "1", "}", " ", "d", "o", "n",
    "e">>

RawInputs ==
  UNION {[1..n -> DecodeAlphabet] : n \in 0..MaxRawLen}
    \cup {RawFenceInString, RawBraceInString, RawProseAroundJSON, RawNoData, RawConfig,
          RawTwoRecords, RawArray, RawNull, RawProse}

InitDecode ==
  /\ apiKey = TRUE
  /\ InitPass
  /\ raw \in RawInputs
  /\ decoded = NoResult
  /\ redecoded = NoResult
  /\ IdleExtract /\ IdleCalc /\ IdleStore /\ IdleFiles

\* parseJSONResponse(raw)
Decode ==
  /\ decoded = NoResult
  /\ decoded' = parseJSONResponse(Str(raw))
  /\ UNCHANGED <<passVars, raw, redecoded, harnessVars>>

\* parseJSONResponse(JSON.stringify(o)) for the value o just decoded
Redecode ==
  /\ decoded # NoResult
  /\ decoded.ok
  /\ redecoded = NoResult
  /\ redecoded' = parseJSONResponse(Str(JSONStringify(decoded.v)))
  /\ UNCHANGED <<passVars, raw, decoded, harnessVars>>

NextDecode == Decode \/ Redecode

SpecDecode == InitDecode /\ [][NextDecode]_vars
\* ------------------------------------------------------------------------
\* A pass run to its end: every callAI of the pass settles with the next
\* outcome of `script`; the pass stops where the script runs out.
\* ------------------------------------------------------------------------
RECURSIVE RunPass(_, _)
RunPass(p, script) ==
  IF p.pc = "callAI" THEN RunPass(callAIStart(p), script)
  ELSE IF p.pc = "await" /\ script # <<>>
  THEN RunPass(callAIFinish(p, Head(script)), Tail(script))
  ELSE p

Answer(r) == [kind |-> "content", value |-> Str(r)]

Failure(k) == [kind |-> k]

\* 77777.
ShortNumericText == <<Run("7", 5), Run(".", 1)>>

\* ------------------------------------------------------------------------
\* The plain AIService (aiService.js without token management): the parts
\* that differ from the chunking one
\* ------------------------------------------------------------------------
BasicMinRecords == 3

\* callAI: there is no size check, and every HTTP error is an "AI API error"
callAI_Plain(outcome) ==
  CASE outcome.kind = "content" -> [ok |-> TRUE, value |-> outcome.value]
    [] outcome.kind = "noContent" -> [ok |-> TRUE, value |-> Undefined]
    [] outcome.kind \in {"rejectedToken", "rejected"} ->
         [ok |-> FALSE, err |-> "ApiError", cause |-> "status"]
    [] outcome.kind = "noResponse" ->
         [ok |-> FALSE, err |-> "NetworkError", cause |-> "noResponse"]
    [] outcome.kind = "noChoices" ->
         [ok |-> FALSE, err |-> "RequestFailed", cause |-> "TypeError"]

\* parseJSONResponse: its catch logs the response itself, so a response that
\* is not a string ends as the invalid-JSON error like any other
parseJSONResponse_Plain(response) ==
  IF response.t # "str" THEN [ok |-> FALSE, err |-> "InvalidJSON"]
  ELSE parseJSONResponse(response)

ExtractionError(cause) == [kind |-> "error", stage |-> "extraction", cause |-> cause]

Extracted(v, next) == [kind |-> "extracted", data |-> v, next |-> next]

\* !result.data || !Array.isArray(result.data) || result.data.length < min
TooFewRecords(v, min) ==
  \/ ~Truthy(Member(v, K_data))
  \/ Member(v, K_data).t # "arr"
  \/ Len(Member(v, K_data).a) < min

\* extractStructuredData once the response is decoded: the validation
extractStructuredDataDecoded(parsed) ==
  IF ~parsed.ok THEN ExtractionError(parsed.err)
  ELSE IF ~CanRead(parsed.v) THEN ExtractionError("TypeError")
  ELSE IF TooFewRecords(parsed.v, BasicMinRecords) THEN ExtractionError("InsufficientData")
  ELSE Extracted(parsed.v, "config")

\* extractStructuredData after its callAI settled
extractStructuredData(res) ==
  IF ~res.ok THEN ExtractionError(res.err)
  ELSE extractStructuredDataDecoded(parseJSONResponse_Plain(res.value))

\* the object a failed stage throws: every catch of the services wraps the
\* cause in `new Error(<stage text> + error.message)`; only analyzeDocument
\* rethrows what it caught
ThrownError(e) ==
  [name |-> IF e.stage = "analyze" THEN "TypeError" ELSE "Error",
   message |-> <<e.stage, e.cause>>]

\* ------------------------------------------------------------------------
\* The extractors on their own (SpecExtract): one extraction request of
\* either service, settled in every way the remote service can settle it
\* ------------------------------------------------------------------------
MaxRecords == 4

K_c == <<"c">>
K_r == <<"r">>
K_metadata == <<"m", "e", "t", "a", "d", "a", "t", "a">>
K_extractionConfidence ==
  <<"e", "x", "t", "r", "a", "c", "t", "i", "o", "n", "C", "o", "n", "f", "i", "d", "e",
    "n", "c", "e">>

Field(k, v) == [k |-> k, v |-> v]

\* {"r":<i>}
ShortRecord(i) == Obj(<<Field(K_r, Num(i))>>)

ShortRecords(n) == Arr([i \in 1..n |-> ShortRecord(i)])

Payload(data) == Obj(<<Field(K_data, data)>>)

ExtractionPayloads ==
  {Payload(ShortRecords(n)) : n \in 0..MaxRecords}
    \cup {Payload(d) : d \in {Null, Num(0), Num(7), Str(<<>>), Str(<<"Q", "1">>), Bool(TRUE),
                              Bool(FALSE), ShortRecord(1), Arr(<<Num(1), Num(2), Num(3)>>)}}
    \cup {Obj(<<Field(K_schema, ShortRecord(1))>>), Obj(<<>>), ShortRecords(3), Null, Num(5),
          Str(<<"d", "a", "t", "a">>)}

ExtractionOutcomes ==
  {Failure(k) : k \in GatewayFailures \cup {"noContent"}}
    \cup {Answer(JSONStringify(v)) : v \in ExtractionPayloads}
    \cup {Answer(r) : r \in {RawTwoRecords, RawOneRecord, RawDataNotArray, RawProse, RawNoData}}

\* the chunking service waiting for the answer to its extraction request
ExtractAwaiting ==
  RunPass(Preprocess(FreshPass(ShortNumericText), "analyze"), <<Answer(RawDataFound)>>)

\* what extractStructuredDataWithChunking returned or threw, read off the pass
ExtractionOfPass(q) ==
  IF q.pc = "failed" THEN q.result ELSE Extracted(q.structuredData, q.call.stage)

Extraction(variant, outcome) ==
  IF variant = "chunking" THEN ExtractionOfPass(callAIFinish(ExtractAwaiting, outcome))
  ELSE extractStructuredData(callAI_Plain(outcome))

MinRecordsOf(variant) == IF variant = "chunking" THEN MinRecords ELSE BasicMinRecords

InitExtract ==
  /\ apiKey = TRUE
  /\ InitPass
  /\ raw = <<>> /\ decoded = NoResult /\ redecoded = NoResult
  /\ exVariant \in {"chunking", "basic"}
  /\ exOutcome \in ExtractionOutcomes
  /\ exResult = NoResult
  /\ IdleCalc /\ IdleStore /\ IdleFiles

\* the extraction request settles and the extractor returns or throws
Extract ==
  /\ exResult = NoResult
  /\ exResult' = Extraction(exVariant, exOutcome)
  /\ UNCHANGED <<apiKey, passVars, decodeVars, exVariant, exOutcome, calcVars, storeVars, fileVars>>

NextExtract == Extract

SpecExtract == InitExtract /\ [][NextExtract]_vars

\* ------------------------------------------------------------------------
\* The Calculator (calculator.js).  Numbers are naturals and quotients of
\* naturals; a call returns a value or throws.
\* ------------------------------------------------------------------------
Returned(v) == [ok |-> TRUE, v |-> v]

Thrown(e) == [ok |-> FALSE, err |-> e]

NaN == [nan |-> TRUE]

Finite(n) == [nan |-> FALSE, n |-> n]

RECURSIVE GCD(_, _)
GCD(a, b) == IF b = 0 THEN a ELSE GCD(b, a % b)

\* a / b for b > 0
Quotient(a, b) ==
  IF a % b = 0 THEN Num(a \div b)
  ELSE [t |-> "ratio", n |-> a \div GCD(a, b), d |-> b \div GCD(a, b)]

Numerator(v) == v.n

Denominator(v) == IF v.t = "ratio" THEN v.d ELSE 1

\* String(v) as a property key: obj[v]
PropertyKey(v) ==
  CASE v.t = "undef" -> <<"u", "n", "d", "e", "f", "i", "n", "e", "d">>
    [] v.t = "null" -> <<"n", "u", "l", "l">>
    [] OTHER -> ElementChars(v)

\* parseFloat of a string: leading white space, then the longest run of
\* digits (the strings of the model carry no sign, point or exponent)
LeadingNumber(s) ==
  IF SkipSpace(s, 1) <= Len(s) /\ IsDigitCh(s[SkipSpace(s, 1)])
  THEN Finite(ParseDigits(s, SkipSpace(s, 1), 0).v.n)
  ELSE NaN

\* parseFloat(v): the argument is converted to a string first
parseFloat(v) ==
  CASE v.t = "num" -> Finite(v.n)
    [] v.t = "str" -> LeadingNumber(v.s)
    [] v.t = "arr" -> LeadingNumber(JoinChars(v.a, <<",">>))
    [] OTHER -> NaN

\* row[column] fails on a row that is null or undefined
RowsReadable(data) == \A i \in 1..Len(data) : CanRead(data[i])

\* data.map(row => parseFloat(row[column]))
ParsedColumn(data, column) ==
  [i \in 1..Len(data) |-> parseFloat(Member(data[i], PropertyKey(column)))]

IsNumber(p) == ~p.nan

\* .filter(val => !isNaN(val))
NumericValues(data, column) == SelectSeq(ParsedColumn(data, column), IsNumber)

\* reduce((sum, row) => sum + (isNaN(val) ? 0 : val), 0)
RECURSIVE SumValues(_, _)
SumValues(ps, sum) ==
  IF ps = <<>> THEN sum
  ELSE SumValues(Tail(ps), sum + (IF Head(ps).nan THEN 0 ELSE Head(ps).n))

calculateSum(data, column) ==
  IF ~RowsReadable(data) THEN Thrown("TypeError")
  ELSE Returned(Num(SumValues(ParsedColumn(data, column), 0)))

\* the average over every row, parseable or not
calculateAverage_OverAllRows(data, column) ==
  IF ~RowsReadable(data) THEN Thrown("TypeError")
  ELSE IF Len(data) > 0
       THEN Returned(Quotient(SumValues(ParsedColumn(data, column), 0), Len(data)))
       ELSE Returned(Num(0))

calculateAverage(data, column) ==
  IF ~RowsReadable(data) THEN Thrown("TypeError")
  ELSE IF Len(NumericValues(data, column)) > 0
       THEN Returned(Quotient(SumValues(ParsedColumn(data, column), 0),
                              Len(NumericValues(data, column))))
       ELSE Returned(Num(0))

SeqMax(ps) == CHOOSE m \in {ps[i].n : i \in 1..Len(ps)} : \A i \in 1..Len(ps) : ps[i].n <= m

SeqMin(ps) == CHOOSE m \in {ps[i].n : i \in 1..Len(ps)} : \A i \in 1..Len(ps) : ps[i].n >= m

calculateMax(data, column) ==
  IF ~RowsReadable(data) THEN Thrown("TypeError")
  ELSE IF Len(NumericValues(data, column)) > 0
       THEN Returned(Num(SeqMax(NumericValues(data, column))))
       ELSE Returned(Num(0))

calculateMin(data, column) ==
  IF ~RowsReadable(data) THEN Thrown("TypeError")
  ELSE IF Len(NumericValues(data, column)) > 0
       THEN Returned(Num(SeqMin(NumericValues(data, column))))
       ELSE Returned(Num(0))

\* s.toLowerCase() over printable ASCII: "A".."Z" are entries 34..59 of the table
ToLowerCh(c) ==
  IF \E i \in 34..59 : AsciiTable[i] = c
  THEN AsciiTable[(CHOOSE i \in 34..59 : AsciiTable[i] = c) + 32]
  ELSE c

toLowerCase(s) == [i \in 1..Len(s) |-> ToLowerCh(s[i])]

\* a / b rounded to the nearest integer, halves upwards (the quotients of the
\* model are never a tie that binary floating point would round down)
RoundDiv(a, b) == (2 * a + b) \div (2 * b)

Pad3(n) == <<DigitChars[(n \div 100) + 1], DigitChars[((n \div 10) % 10) + 1], DigitChars[(n % 10) + 1]>>

\* an integer with the en-US group separators
RECURSIVE GroupDigits(_)
GroupDigits(n) ==
  IF n < 1000 THEN NumToChars(n)
  ELSE GroupDigits(n \div 1000) \o <<",">> \o Pad3(n % 1000)

RECURSIVE StripZeros(_)
StripZeros(s) == IF s # <<>> /\ s[Len(s)] = "0" THEN StripZeros(SubSeq(s, 1, Len(s) - 1)) ELSE s

\* (a / b).toFixed(1)
ToFixed1(a, b) ==
  NumToChars(RoundDiv(10 * a, b) \div 10) \o <<".", DigitChars[(RoundDiv(10 * a, b) % 10) + 1]>>

\* value.toLocaleString() in the en-US locale: at most three fraction digits
ThousandthsString(t) ==
  IF t % 1000 = 0 THEN GroupDigits(t \div 1000)
  ELSE GroupDigits(t \div 1000) \o <<".">> \o StripZeros(Pad3(t % 1000))

toLocaleString(v) == ThousandthsString(RoundDiv(1000 * Numerator(v), Denominator(v)))

\* Intl.NumberFormat('en-US', {style: 'percent', 1 fraction digit}).format(value / 100)
PercentString(t) == GroupDigits(t \div 10) \o <<".", DigitChars[(t % 10) + 1], "%">>

\* formatValue for a finite value and the lower-cased format name
FormatAs(v, format) ==
  IF format = <<"c", "u", "r", "r", "e", "n", "c", "y">>
  THEN <<"$">> \o GroupDigits(RoundDiv(Numerator(v), Denominator(v)))
  ELSE IF format = <<"p", "e", "r", "c", "e", "n", "t">>
  THEN PercentString(RoundDiv(10 * Numerator(v), Denominator(v)))
  ELSE IF Numerator(v) >= 1000000 * Denominator(v)
  THEN ToFixed1(Numerator(v), 1000000 * Denominator(v)) \o <<"M">>
  ELSE IF Numerator(v) >= 1000 * Denominator(v)
  THEN ToFixed1(Numerator(v), 1000 * Denominator(v)) \o <<"K">>
  ELSE toLocaleString(v)

\* format?.toLowerCase(): undefined for null and undefined, a TypeError for
\* any other value that is not a string
formatValue(value, format) ==
  IF format.t \in {"undef", "null"} THEN Returned(Str(FormatAs(value, <<>>)))
  ELSE IF format.t # "str" THEN Thrown("TypeError")
  ELSE Returned(Str(FormatAs(value, toLowerCase(format.s))))

K_name == <<"n", "a", "m", "e">>
K_value == <<"v", "a", "l", "u", "e">>
K_formattedValue == <<"f", "o", "r", "m", "a", "t", "t", "e", "d", "V", "a", "l", "u", "e">>
K_calculation == <<"c", "a", "l", "c", "u", "l", "a", "t", "i", "o", "n">>
K_column == <<"c", "o", "l", "u", "m", "n">>
K_format == <<"f", "o", "r", "m", "a", "t">>

\* the object calculateSingleKPI returns
KPI(definition, value, formatted) ==
  IF ~formatted.ok THEN formatted
  ELSE Returned(Obj(<<Field(K_name, Member(definition, K_name)),
                      Field(K_value, value),
                      Field(K_formattedValue, formatted.v),
                      Field(K_calculation, Member(definition, K_calculation)),
                      Field(K_column, Member(definition, K_column)),
                      Field(K_format, Member(definition, K_format))>>))

KPIOf(definition, computed) ==
  IF ~computed.ok THEN computed
  ELSE KPI(definition, computed.v, formatValue(computed.v, Member(definition, K_format)))

\* the switch of calculateSingleKPI on the lower-cased calculation
CalculationValue(data, column, calculation) ==
  CASE calculation = <<"s", "u", "m">> -> calculateSum(data, column)
    [] calculation \in {<<"a", "v", "g">>, <<"a", "v", "e", "r", "a", "g", "e">>} -> calculateAverage(data, column)
    [] calculation = <<"c", "o", "u", "n", "t">> -> Returned(Num(Len(data)))
    [] calculation = <<"m", "a", "x">> -> calculateMax(data, column)
    [] calculation = <<"m", "i", "n">> -> calculateMin(data, column)
    [] OTHER -> Returned(Null)

\* the kinds as the specification lists them: no 'average'
KnownCalculations_Listed ==
  {<<"s", "u", "m">>, <<"a", "v", "g">>, <<"c", "o", "u", "n", "t">>, <<"m", "a", "x">>,
   <<"m", "i", "n">>}

KnownCalculations == {<<"s", "u", "m">>, <<"a", "v", "g">>, <<"a", "v", "e", "r", "a", "g", "e">>, <<"c", "o", "u", "n", "t">>, <<"m", "a", "x">>, <<"m", "i", "n">>}

calculateSingleKPI(data, definition) ==
  IF ~CanRead(definition) THEN Thrown("TypeError")
  ELSE IF Member(definition, K_calculation).t # "str" THEN Thrown("TypeError")
  ELSE IF toLowerCase(Member(definition, K_calculation).s) \notin KnownCalculations
  THEN Returned(Null)
  ELSE KPIOf(definition,
             CalculationValue(data, Member(definition, K_column),
                              toLowerCase(Member(definition, K_calculation).s)))

\* kpiDefinitions.forEach(def => { try {...} catch (error) { ... def.name ... } }):
\* forEach is a TypeError on a value that is not an array, and the catch
\* reads def.name, a TypeError of its own on a null definition
RECURSIVE CalculateEach(_, _, _)
CalculateEach(data, defs, kpis) ==
  IF defs = <<>> THEN Returned(kpis)
  ELSE IF calculateSingleKPI(data, Head(defs)).ok
  THEN CalculateEach(data, Tail(defs),
                     IF Truthy(calculateSingleKPI(data, Head(defs)).v)
                     THEN Append(kpis, calculateSingleKPI(data, Head(defs)).v)
                     ELSE kpis)
  ELSE IF ~CanRead(Head(defs)) THEN Thrown("TypeError")
  ELSE CalculateEach(data, Tail(defs), kpis)

calculateKPIs(data, kpiDefinitions) ==
  IF kpiDefinitions.t # "arr" THEN Thrown("TypeError")
  ELSE CalculateEach(data, kpiDefinitions.a, <<>>)

\* slice(0, 20) in prepareChartData, both times
ChartLimit == 20

\* v[0]
First(v) ==
  CASE v.t = "arr" -> IF v.a = <<>> THEN Undefined ELSE v.a[1]
    [] v.t = "str" -> IF v.s = <<>> THEN Undefined ELSE Str(<<v.s[1]>>)
    [] OTHER -> Member(v, <<"0">>)

\* v.length === 0
HasLengthZero(v) ==
  \/ v.t = "arr" /\ v.a = <<>>
  \/ v.t = "str" /\ v.s = <<>>
  \/ v.t = "obj" /\ Member(v, <<"l", "e", "n", "g", "t", "h">>) = Num(0)

\* the names every object literal inherits: groups[name] is never undefined
InheritedKeys ==
  {<<"c", "o", "n", "s", "t", "r", "u", "c", "t", "o", "r">>, <<"t", "o", "S", "t", "r", "i", "n", "g">>, <<"v", "a", "l", "u", "e", "O", "f">>, <<"h", "a", "s", "O", "w", "n", "P", "r", "o", "p", "e", "r", "t", "y">>, <<"i", "s", "P", "r", "o", "t", "o", "t", "y", "p", "e", "O", "f">>,
   <<"p", "r", "o", "p", "e", "r", "t", "y", "I", "s", "E", "n", "u", "m", "e", "r", "a", "b", "l", "e">>, <<"t", "o", "L", "o", "c", "a", "l", "e", "S", "t", "r", "i", "n", "g">>, <<"_", "_", "p", "r", "o", "t", "o", "_", "_">>}

UnknownGroup == <<"U", "n", "k", "n", "o", "w", "n">>

\* item[key] || 'Unknown', as the property name it becomes
GroupKey(item, key) ==
  IF Truthy(Member(item, PropertyKey(key)))
  THEN PropertyKey(Member(item, PropertyKey(key)))
  ELSE UnknownGroup

HasGroup(groups, k) == \E i \in 1..Len(groups) : groups[i].k = k

AddToGroup(groups, k, item) ==
  IF HasGroup(groups, k)
  THEN [i \in 1..Len(groups) |->
          IF groups[i].k = k THEN [k |-> k, rows |-> Append(groups[i].rows, item)]
          ELSE groups[i]]
  ELSE Append(groups, [k |-> k, rows |-> <<item>>])

\* groupBy: the groups in the order their keys were first added
RECURSIVE GroupEach(_, _, _)
GroupEach(data, key, groups) ==
  IF data = <<>> THEN Returned(groups)
  ELSE IF ~CanRead(Head(data)) THEN Thrown("TypeError")
  ELSE IF GroupKey(Head(data), key) \in InheritedKeys THEN Thrown("TypeError")
  ELSE GroupEach(Tail(data), key, AddToGroup(groups, GroupKey(Head(data), key), Head(data)))

groupBy(data, key) == GroupEach(data, key, <<>>)

\* a property name that is an array index: Object.keys lists these first,
\* in ascending order, before the other names in insertion order
IsIndexKey(k) ==
  /\ k # <<>>
  /\ \A i \in 1..Len(k) : IsDigitCh(k[i])
  /\ (Len(k) = 1 \/ k[1] # "0")

IndexOfKey(k) == ParseDigits(k, 1, 0).v.n

IsIndexGroup(g) == IsIndexKey(g.k)

IsNamedGroup(g) == ~IsIndexKey(g.k)

RECURSIVE InsertAscending(_, _)
InsertAscending(g, sorted) ==
  IF sorted = <<>> THEN <<g>>
  ELSE IF IndexOfKey(g.k) < IndexOfKey(Head(sorted).k) THEN <<g>> \o sorted
  ELSE <<Head(sorted)>> \o InsertAscending(g, Tail(sorted))

RECURSIVE SortAscending(_, _)
SortAscending(rest, sorted) ==
  IF rest = <<>> THEN sorted
  ELSE SortAscending(Tail(rest), InsertAscending(Head(rest), sorted))

\* the groups in the order of Object.keys(grouped)
KeyOrder(groups) ==
  SortAscending(SelectSeq(groups, IsIndexGroup), <<>>) \o SelectSeq(groups, IsNamedGroup)

\* measures.forEach(measure => dataPoint[measure] = calculateSum(group, measure))
RECURSIVE AddMeasures(_, _, _)
AddMeasures(point, rows, measures) ==
  IF measures = <<>> THEN point
  ELSE AddMeasures(PutMember(point, PropertyKey(Head(measures)),
                             calculateSum(rows, Head(measures)).v),
                   rows, Tail(measures))

\* { [primaryDimension]: key } and then the sums
DataPoint(primaryDimension, g, measures) ==
  Obj(AddMeasures(<<Field(PropertyKey(primaryDimension), Str(g.k))>>, g.rows, measures))

\* b[primaryMeasure] || 0
SortValue(point, primaryMeasure) ==
  IF Truthy(Member(point, PropertyKey(primaryMeasure)))
  THEN Member(point, PropertyKey(primaryMeasure)).n
  ELSE 0

\* Array.prototype.sort is stable: a point goes after the points that are
\* not smaller
RECURSIVE InsertDescending(_, _, _)
InsertDescending(point, sorted, primaryMeasure) ==
  IF sorted = <<>> THEN <<point>>
  ELSE IF SortValue(point, primaryMeasure) > SortValue(Head(sorted), primaryMeasure)
  THEN <<point>> \o sorted
  ELSE <<Head(sorted)>> \o InsertDescending(point, Tail(sorted), primaryMeasure)

RECURSIVE SortDescending(_, _, _)
SortDescending(rest, sorted, primaryMeasure) ==
  IF rest = <<>> THEN sorted
  ELSE SortDescending(Tail(rest), InsertDescending(Head(rest), sorted, primaryMeasure),
                      primaryMeasure)

\* a.slice(0, n)
Slice(a, n) == SubSeq(a, 1, IF Len(a) < n THEN Len(a) ELSE n)

\* the aggregation of prepareChartData once the rows are grouped
Aggregated(groups, primaryDimension, measures) ==
  IF groups = <<>> THEN Returned(<<>>)
  ELSE IF measures.t # "arr" THEN Thrown("TypeError")
  ELSE Returned(Slice(SortDescending(
                        [i \in 1..Len(groups) |->
                           DataPoint(primaryDimension, KeyOrder(groups)[i], measures.a)],
                        <<>>, First(measures)),
                      ChartLimit))

AggregatedOrThrown(grouped, primaryDimension, measures) ==
  IF ~grouped.ok THEN grouped
  ELSE Aggregated(grouped.v, primaryDimension, measures)

K_measures == <<"m", "e", "a", "s", "u", "r", "e", "s">>
K_dimensions == <<"d", "i", "m", "e", "n", "s", "i", "o", "n", "s">>
K_type == <<"t", "y", "p", "e">>
K_title == <<"t", "i", "t", "l", "e">>
K_id == <<"i", "d">>
K_config == <<"c", "o", "n", "f", "i", "g">>
K_kpis == <<"k", "p", "i", "s">>
K_charts == <<"c", "h", "a", "r", "t", "s">>
K_summary == <<"s", "u", "m", "m", "a", "r", "y">>

\* !measures || !dimensions || measures.length === 0 || dimensions.length === 0
NoAggregation(measures, dimensions) ==
  \/ ~Truthy(measures)
  \/ ~Truthy(dimensions)
  \/ HasLengthZero(measures)
  \/ HasLengthZero(dimensions)

prepareChartData(data, chartDef) ==
  IF ~CanRead(chartDef) THEN Thrown("TypeError")
  ELSE IF NoAggregation(Member(chartDef, K_measures), Member(chartDef, K_dimensions))
  THEN Returned(Slice(data, ChartLimit))
  ELSE AggregatedOrThrown(groupBy(data, First(Member(chartDef, K_dimensions))),
                          First(Member(chartDef, K_dimensions)),
                          Member(chartDef, K_measures))

\* margin: { top: 20, right: 30, left: 20, bottom: 5 }
ChartMargin ==
  Obj(<<Field(<<"t", "o", "p">>, Num(20)), Field(<<"r", "i", "g", "h", "t">>, Num(30)), Field(<<"l", "e", "f", "t">>, Num(20)),
        Field(<<"b", "o", "t", "t", "o", "m">>, Num(5))>>)

BaseConfig(data) == <<Field(K_data, Arr(data)), Field(<<"m", "a", "r", "g", "i", "n">>, ChartMargin)>>

ChartComponent(type) ==
  CASE type = Str(<<"b", "a", "r">>) -> Str(<<"B", "a", "r", "C", "h", "a", "r", "t">>)
    [] type = Str(<<"l", "i", "n", "e">>) -> Str(<<"L", "i", "n", "e", "C", "h", "a", "r", "t">>)
    [] type = Str(<<"a", "r", "e", "a">>) -> Str(<<"A", "r", "e", "a", "C", "h", "a", "r", "t">>)
    [] type = Str(<<"p", "i", "e">>) -> Str(<<"P", "i", "e", "C", "h", "a", "r", "t">>)
    [] OTHER -> Undefined

\* measures[0] and dimensions[0] are read first: a TypeError when either is
\* null or undefined
generateChartOption(type, data, measures, dimensions) ==
  IF ~CanRead(measures) \/ ~CanRead(dimensions) THEN Thrown("TypeError")
  ELSE IF ChartComponent(type) = Undefined THEN Returned(Obj(BaseConfig(data)))
  ELSE Returned(Obj(BaseConfig(data)
                      \o <<Field(K_type, ChartComponent(type)),
                           Field(<<"d", "a", "t", "a", "K", "e", "y">>, First(measures)),
                           Field(IF type = Str(<<"p", "i", "e">>) THEN <<"n", "a", "m", "e", "K", "e", "y">> ELSE <<"x", "A", "x", "i", "s", "K", "e", "y">>,
                                 First(dimensions))>>))

\* the object generateChartConfigs pushes
Chart(def, index, chartData, option) ==
  IF ~option.ok THEN option
  ELSE Returned(Obj(<<Field(K_id, Str(<<"c", "h", "a", "r", "t", "_">> \o NumToChars(index))),
                      Field(K_title, Member(def, K_title)),
                      Field(K_type, Member(def, K_type)),
                      Field(K_data, Arr(chartData)),
                      Field(K_measures, Member(def, K_measures)),
                      Field(K_dimensions, Member(def, K_dimensions)),
                      Field(K_config, option.v)>>))

\* the body of the try for one definition: null when nothing is pushed
ChartOf(def, index, prepared) ==
  IF ~prepared.ok THEN prepared
  ELSE IF prepared.v = <<>> THEN Returned(Null)
  ELSE Chart(def, index, prepared.v,
             generateChartOption(Member(def, K_type), prepared.v, Member(def, K_measures),
                                 Member(def, K_dimensions)))

PushIfChart(charts, made) == IF made.v = Null THEN charts ELSE Append(charts, made.v)

\* chartDefinitions.forEach((def, index) => { try {...} catch { ... def.title ... } })
RECURSIVE ChartEach(_, _, _, _)
ChartEach(data, defs, index, charts) ==
  IF index >= Len(defs) THEN Returned(charts)
  ELSE IF ChartOf(defs[index + 1], index, prepareChartData(data, defs[index + 1])).ok
  THEN ChartEach(data, defs, index + 1,
                 PushIfChart(charts, ChartOf(defs[index + 1], index,
                                             prepareChartData(data, defs[index + 1]))))
  ELSE IF ~CanRead(defs[index + 1]) THEN Thrown("TypeError")
  ELSE ChartEach(data, defs, index + 1, charts)

generateChartConfigs(data, chartDefinitions) ==
  IF chartDefinitions.t # "arr" THEN Thrown("TypeError")
  ELSE ChartEach(data, chartDefinitions.a, 0, <<>>)

\* ------------------------------------------------------------------------
\* POST /generate-dashboard as a function of the session it finds
\* ------------------------------------------------------------------------
NoSession == [hasData |-> "none"]

\* the session the upload route stores for an analysis with data
DataSession(text, extracted, dashboard, time) ==
  [hasData |-> TRUE, extractedText |-> text, data |-> Member(extracted, K_data),
   schema |-> Member(extracted, K_schema),
   metadata |-> Member(extracted, K_metadata), dashboardConfig |-> dashboard,
   uploadTime |-> time]

\* the session the upload route stores for an analysis without data
NoDataSession(text, reason, time) ==
  [hasData |-> FALSE, extractedText |-> text, reason |-> reason, uploadTime |-> time]

Respond(status, body) == [status |-> status, body |-> body]

NotFound == Respond(404, [success |-> FALSE, message |-> "Session not found"])

ServerError(route) == Respond(500, [success |-> FALSE, message |-> route])

K_dataSource == <<"d", "a", "t", "a", "S", "o", "u", "r", "c", "e">>

\* metadata?.key || fallback
MetadataOr(metadata, key, fallback) ==
  IF CanRead(metadata) /\ Truthy(Member(metadata, key)) THEN Member(metadata, key)
  ELSE Str(fallback)

\* the dashboard of the response once both calculators have returned
DashboardBody(s, kpis, charts) ==
  [kpis |-> kpis, charts |-> charts,
   insights |-> IF Truthy(Member(s.dashboardConfig, K_insights))
                THEN Member(s.dashboardConfig, K_insights) ELSE Arr(<<>>),
   summary |-> Member(s.dashboardConfig, K_summary),
   dataInfo |-> [totalRecords |-> Len(s.data.a),
                 dataSource |-> MetadataOr(s.metadata, K_dataSource, <<"d", "o", "c", "u", "m", "e", "n", "t", " ", "e", "x", "t", "r", "a", "c", "t", "i", "o", "n">>),
                 confidence |-> MetadataOr(s.metadata, K_extractionConfidence, <<"u", "n", "k", "n", "o", "w", "n">>)]]

DashboardOrError(s, kpis, charts) ==
  IF ~kpis.ok \/ ~charts.ok THEN ServerError("Error generating dashboard")
  ELSE Respond(200, [success |-> TRUE, dashboard |-> DashboardBody(s, kpis.v, charts.v)])

\* the handler once the session is known to hold data
DashboardFor(s) ==
  IF ~CanRead(s.dashboardConfig) THEN ServerError("Error generating dashboard")
  ELSE DashboardOrError(s, calculateKPIs(s.data.a, Member(s.dashboardConfig, K_kpis)),
                        generateChartConfigs(s.data.a, Member(s.dashboardConfig, K_charts)))

\* the handler without its hasData check: a session without data has no
\* dashboardConfig to read kpis from
generateDashboard_NoDataCheck(s) ==
  IF s = NoSession THEN NotFound
  ELSE IF ~s.hasData THEN ServerError("Error generating dashboard")
  ELSE DashboardFor(s)

\* the handler from sessions.get on: 404, 400, the dashboard, or the 500 of its catch
generateDashboard(s) ==
  IF s = NoSession THEN NotFound
  ELSE IF ~s.hasData
  THEN Respond(400, [success |-> FALSE,
                     message |-> "No dashboard data available for this session",
                     reason |-> s.reason])
  ELSE DashboardFor(s)

\* ------------------------------------------------------------------------
\* The calculator on its own (SpecCalc): one record list and one dashboard
\* configuration, aggregated by each entry point
\* ------------------------------------------------------------------------
MaxRows == 3
MaxDefs == 2

K_cat == <<"c", "a", "t">>
K_revenue == <<"r", "e", "v", "e", "n", "u", "e">>
K_units == <<"u", "n", "i", "t", "s">>

Row(cat, revenue) == Obj(<<Field(K_cat, cat), Field(K_revenue, revenue)>>)

\* [{revenue:"100"},{revenue:"abc"},{revenue:200}] with a category each
ExampleRows ==
  <<Row(Str(<<"Q", "1">>), Str(<<"1", "0", "0">>)), Row(Str(<<"Q", "2">>), Str(<<"a", "b", "c">>)), Row(Str(<<"Q", "1">>), Num(200))>>

QuarterRows ==
  <<Row(Str(<<"Q", "1">>), Num(100)), Row(Str(<<"Q", "1">>), Num(50)), Row(Str(<<"Q", "2">>), Num(80)),
    Row(Str(<<"Q", "3">>), Str(<<"1", "2", " ", "u", "n", "i", "t", "s">>)), Obj(<<Field(K_cat, Str(<<"Q", "3">>))>>)>>

\* category values that are falsy, absent or the text Unknown
FalsyRows ==
  <<Row(Num(0), Num(100)), Row(Str(<<>>), Num(50)), Obj(<<Field(K_revenue, Num(7))>>),
    Row(Null, Num(1)), Row(Bool(FALSE), Num(3)), Row(Str(<<"U", "n", "k", "n", "o", "w", "n">>), Num(2))>>

\* category values that become array-index property names
IndexRows ==
  <<Row(Num(2), Num(1)), Row(Str(<<"b">>), Num(5)), Row(Num(1), Num(1)), Row(Str(<<"1">>), Num(3))>>

ZeroAndEmptyRows == <<Row(Num(0), Num(100)), Row(Str(<<>>), Num(50))>>

NullRows == <<Null, Row(Str(<<"Q", "1">>), Num(1))>>

InheritedRows == <<Row(Str(<<"c", "o", "n", "s", "t", "r", "u", "c", "t", "o", "r">>), Num(1)), Row(Str(<<"Q", "1">>), Num(2))>>

LargeRows == <<Row(Str(<<"Q", "1">>), Num(1500000)), Row(Str(<<"Q", "2">>), Num(2600))>>

NoNumberRows == <<Row(Str(<<"a">>), Str(<<"x">>)), Obj(<<Field(K_cat, Str(<<"b">>))>>)>>

\* one more category than a chart keeps; revenue 1 twice, then 2, 3, ...
ManyRows ==
  [i \in 1..(ChartLimit + 1) |->
     Row(Str(<<"g">> \o NumToChars(i)), Num(IF i = 1 THEN 1 ELSE i - 1))]

NamedRows ==
  {ExampleRows, QuarterRows, FalsyRows, IndexRows, ZeroAndEmptyRows, NullRows, InheritedRows,
   LargeRows, NoNumberRows, ManyRows}

RevenueValues == {Num(100), Num(50), Str(<<"a", "b", "c">>), Str(<<"7">>), Null}

SeqsUpTo(S, n) == UNION {[1..k -> S] : k \in 0..n}

\* every list of up to MaxRows records over a few revenue values
SmallRows == {[i \in 1..Len(vs) |-> Row(Str(<<"Q", "1">>), vs[i])] : vs \in SeqsUpTo(RevenueValues, MaxRows)}

KpiDef(name, calculation, format) ==
  Obj(<<Field(K_name, Str(name)), Field(K_calculation, calculation),
        Field(K_column, Str(K_revenue)), Field(K_format, format)>>)

KpiDefs ==
  {KpiDef(<<"T", "o", "t", "a", "l">>, Str(<<"s", "u", "m">>), Str(<<"c", "u", "r", "r", "e", "n", "c", "y">>)),
   KpiDef(<<"M", "e", "a", "n">>, Str(<<"a", "v", "g">>), Str(<<"n", "u", "m", "b", "e", "r">>)),
   KpiDef(<<"M", "e", "a", "n", "2">>, Str(<<"a", "v", "e", "r", "a", "g", "e">>), Str(<<"p", "e", "r", "c", "e", "n", "t">>)),
   KpiDef(<<"R", "o", "w", "s">>, Str(<<"c", "o", "u", "n", "t">>), Undefined),
   KpiDef(<<"T", "o", "p">>, Str(<<"m", "a", "x">>), Null),
   KpiDef(<<"L", "o", "w">>, Str(<<"m", "i", "n">>), Str(<<"C", "u", "r", "r", "e", "n", "c", "y">>)),
   KpiDef(<<"U", "p", "p", "e", "r">>, Str(<<"S", "U", "M">>), Str(<<"n", "u", "m", "b", "e", "r">>)),
   KpiDef(<<"M", "e", "d", "i", "a", "n">>, Str(<<"m", "e", "d", "i", "a", "n">>), Str(<<"n", "u", "m", "b", "e", "r">>)),
   KpiDef(<<"B", "a", "d", "F", "o", "r", "m", "a", "t">>, Str(<<"s", "u", "m">>), Num(2)),
   KpiDef(<<"B", "a", "d", "K", "i", "n", "d">>, Num(1), Str(<<"n", "u", "m", "b", "e", "r">>)),
   Obj(<<Field(K_name, Str(<<"N", "o", "K", "i", "n", "d">>))>>),
   Null}

ChartDef(type, measures, dimensions) ==
  Obj(<<Field(K_title, Str(<<"T">>)), Field(K_type, type), Field(K_measures, measures),
        Field(K_dimensions, dimensions)>>)

Names(ks) == Arr([i \in 1..Len(ks) |-> Str(ks[i])])

ChartDefs ==
  {ChartDef(Str(<<"b", "a", "r">>), Names(<<K_revenue>>), Names(<<K_cat>>)),
   ChartDef(Str(<<"p", "i", "e">>), Names(<<K_revenue, K_units>>), Names(<<K_cat, K_revenue>>)),
   ChartDef(Str(<<"t", "a", "b", "l", "e">>), Names(<<K_units, K_revenue>>), Names(<<K_cat>>)),
   ChartDef(Str(<<"l", "i", "n", "e">>), Arr(<<>>), Names(<<K_cat>>)),
   ChartDef(Str(<<"b", "a", "r">>), Names(<<K_revenue>>), Arr(<<>>)),
   Obj(<<Field(K_title, Str(<<"T">>)), Field(K_type, Str(<<"b", "a", "r">>))>>),
   ChartDef(Str(<<"b", "a", "r">>), Str(K_revenue), Names(<<K_cat>>)),
   ChartDef(Str(<<"a", "r", "e", "a">>), Names(<<K_revenue>>), Str(K_cat)),
   Null}

\* what a decoded configuration may hold in place of a list
NotALists == {Undefined, Null, Str(<<"n", "o", "n", "e">>), Num(0), Obj(<<>>)}

StandardKpis ==
  Arr(<<KpiDef(<<"T", "o", "t", "a", "l">>, Str(<<"s", "u", "m">>), Str(<<"c", "u", "r", "r", "e", "n", "c", "y">>)),
        KpiDef(<<"M", "e", "a", "n">>, Str(<<"a", "v", "g">>), Str(<<"n", "u", "m", "b", "e", "r">>))>>)

StandardCharts == Arr(<<ChartDef(Str(<<"b", "a", "r">>), Names(<<K_revenue>>), Names(<<K_cat>>))>>)

Config(kpis, charts) ==
  Obj(<<Field(K_kpis, kpis), Field(K_charts, charts), Field(K_summary, Str(<<"S">>))>>)

KpiConfigs ==
  {Config(Arr(ds), StandardCharts) : ds \in SeqsUpTo(KpiDefs, MaxDefs)}
    \cup {Config(v, StandardCharts) : v \in NotALists}
    \cup {Obj(<<>>)}

ChartConfigs ==
  {Config(StandardKpis, Arr(ds)) : ds \in SeqsUpTo(ChartDefs, MaxDefs)}
    \cup {Config(StandardKpis, v) : v \in NotALists}

\* every KPI configuration over the lists that differ in their numbers, every
\* chart configuration over the lists that differ in their categories, each
\* chart definition over the long list, and the standard configuration over
\* every small list
CalcInputs ==
  {[data |-> d, config |-> c] :
     d \in {ExampleRows, QuarterRows, NullRows, LargeRows, NoNumberRows}, c \in KpiConfigs}
    \cup {[data |-> d, config |-> c] : d \in NamedRows \ {LargeRows, ManyRows}, c \in ChartConfigs}
    \cup {[data |-> ManyRows, config |-> Config(StandardKpis, Arr(<<d>>))] : d \in ChartDefs}
    \cup {[data |-> d, config |-> Config(StandardKpis, StandardCharts)] : d \in SmallRows}

\* the session a calculator input would be stored as
SessionOf(input) ==
  [hasData |-> TRUE, extractedText |-> <<>>, data |-> Arr(input.data), schema |-> Undefined,
   metadata |-> Undefined, dashboardConfig |-> input.config, uploadTime |-> 0]

InitCalc ==
  /\ apiKey = TRUE
  /\ InitPass
  /\ raw = <<>> /\ decoded = NoResult /\ redecoded = NoResult
  /\ IdleExtract /\ IdleStore /\ IdleFiles
  /\ calcIn \in CalcInputs
  /\ calcOut = NoResult

Calculated(kind, out) ==
  /\ calcOut = NoResult
  /\ calcOut' = [kind |-> kind, out |-> out]
  /\ UNCHANGED <<passVars, decodeVars, extractVars, storeVars, fileVars, calcIn>>

CalculateKPIs == Calculated("kpis", calculateKPIs(calcIn.data, Member(calcIn.config, K_kpis)))

GenerateChartConfigs ==
  Calculated("charts", generateChartConfigs(calcIn.data, Member(calcIn.config, K_charts)))

GenerateFromInput == Calculated("dashboard", generateDashboard(SessionOf(calcIn)))

NextCalc == CalculateKPIs \/ GenerateChartConfigs \/ GenerateFromInput

SpecCalc == InitCalc /\ [][NextCalc]_vars

\* ------------------------------------------------------------------------
\* The session store and its routes (SpecStore).  Time is in milliseconds
\* and moves in half sweep periods; session ids are fresh (Date.now() plus a
\* random suffix), modelled by a counter.
\* ------------------------------------------------------------------------
MaxSessions == 1

TickMs == SweepPeriod \div 2

\* the clock stops two sweeps after the first sessions are due
Horizon == MaxAge + 2 * SweepPeriod

\* uploads arrive during the first tick; every other request at any time
UploadWindow == TickMs

HasSession(store, id) == id \in DOMAIN store

\* sessions.get(sessionId)
GetOr(store, id) == IF HasSession(store, id) THEN store[id] ELSE NoSession

\* sessions.set(sessionId, session) for a fresh id
SetSession(store, id, s) == [k \in DOMAIN store \cup {id} |-> IF k = id THEN s ELSE store[k]]

\* sessions.delete for every id of a set
DeleteSessions(store, ids) == [k \in DOMAIN store \ ids |-> store[k]]

\* {"data":[{"r":5},{"r":6}],"metadata":{"extractionConfidence":8}}
ExtractionWithMetadata ==
  Obj(<<Field(K_data, Arr(<<ShortRecord(5), ShortRecord(6)>>)),
        Field(K_metadata, Obj(<<Field(K_extractionConfidence, Num(8))>>))>>)

\* {"kpis":[{"calculation":"sum","column":"r"}],"charts":[]}
ConfigWithKpi ==
  Obj(<<Field(K_kpis, Arr(<<Obj(<<Field(K_calculation, Str(<<"s", "u", "m">>)),
                                   Field(K_column, Str(K_r))>>)>>)),
        Field(K_charts, Arr(<<>>))>>)

\* what the remote service answers to the requests of one upload, in order
DataScript ==
  <<Answer(RawDataFound), Answer(JSONStringify(ExtractionWithMetadata)),
    Answer(JSONStringify(ConfigWithKpi))>>

NoMetadataScript == <<Answer(RawDataFound), Answer(RawTwoRecords), Answer(RawConfig)>>

NoDataScript == <<Answer(RawNoData)>>

ClassifyFailsScript == <<Answer(RawProse)>>

ExtractFailsScript == <<Answer(RawDataFound), Answer(RawOneRecord)>>

ConfigFailsScript ==
  <<Answer(RawDataFound), Answer(JSONStringify(ExtractionWithMetadata)), Failure("rejected")>>

UploadScripts ==
  {DataScript, NoMetadataScript, NoDataScript, ClassifyFailsScript, ExtractFailsScript,
   ConfigFailsScript}

\* the response of a route: the session it was about (0: none), status, body
Response(route, id, status, body) == [route |-> route, id |-> id, status |-> status, body |-> body]

UploadFailed(error) ==
  Response("upload", 0, 500, [success |-> FALSE, message |-> "Error processing document", error |-> error])

\* res.json of the hasData branch: reads metadata.extractionConfidence and
\* dashboard.summary, a TypeError when metadata is missing (the session is
\* stored by then)
UploadedData(id, analysis) ==
  IF ~CanRead(Member(analysis.data, K_metadata)) \/ ~CanRead(analysis.dashboard)
  THEN Response("upload", id, 500,
                [success |-> FALSE, message |-> "Error processing document",
                 error |-> [kind |-> "error", stage |-> "response", cause |-> "TypeError"]])
  ELSE Response("upload", id, 200,
                [success |-> TRUE, sessionId |-> id, hasData |-> TRUE,
                 preview |-> [dataRecords |-> Len(Member(analysis.data, K_data).a),
                              confidence |-> Member(Member(analysis.data, K_metadata),
                                                    K_extractionConfidence),
                              summary |-> Member(analysis.dashboard, K_summary)]])

UploadedNoData(id, analysis) ==
  Response("upload", id, 200,
           [success |-> TRUE, sessionId |-> id, hasData |-> FALSE, reason |-> analysis.reason])

\* the upload route after analyzeDocument has settled as the pass q: the new
\* store, the number of ids issued and the response
uploadAnalyzed(store, ids, q, time) ==
  IF q.pc = "failed"
  THEN [store |-> store, ids |-> ids, response |-> UploadFailed(q.result)]
  ELSE IF q.result.kind = "hasData"
  THEN [store |-> SetSession(store, ids + 1,
                             DataSession(q.extractedText, q.result.data, q.result.dashboard, time)),
        ids |-> ids + 1, response |-> UploadedData(ids + 1, q.result)]
  ELSE [store |-> SetSession(store, ids + 1, NoDataSession(q.extractedText, q.result.reason, time)),
        ids |-> ids + 1, response |-> UploadedNoData(ids + 1, q.result)]

\* the upload route: no file, a file processFile cannot read, or the analysis
upload(store, ids, file, script, time) ==
  IF file = "none"
  THEN [store |-> store, ids |-> ids,
        response |-> Response("upload", 0, 400, [success |-> FALSE, message |-> "No file uploaded"])]
  ELSE IF file = "unreadable"
  THEN [store |-> store, ids |-> ids,
        response |-> UploadFailed([kind |-> "error", stage |-> "processFile", cause |-> "Error"])]
  ELSE uploadAnalyzed(store, ids, RunPass(analyzeDocument(ShortNumericText), script), time)

\* GET /session/:sessionId
getSession(store, id) ==
  IF ~HasSession(store, id) THEN Response("session", id, 404, NotFound.body)
  ELSE Response("session", id, 200, [success |-> TRUE, data |-> store[id]])

\* GET /extracted-text/:sessionId
getExtractedText(store, id) ==
  IF ~HasSession(store, id) THEN Response("extracted-text", id, 404, NotFound.body)
  ELSE Response("extracted-text", id, 200,
                [success |-> TRUE, extractedText |-> store[id].extractedText,
                 textLength |-> StrLen(store[id].extractedText),
                 uploadTime |-> store[id].uploadTime])

\* GET /raw-data/:sessionId: field || null for what a session may lack
getRawData(store, id) ==
  IF ~HasSession(store, id) THEN Response("raw-data", id, 404, NotFound.body)
  ELSE Response("raw-data", id, 200,
                [success |-> TRUE,
                 rawData |-> [sessionId |-> id, uploadTime |-> store[id].uploadTime,
                              hasData |-> store[id].hasData,
                              extractedText |-> store[id].extractedText,
                              structuredData |-> IF store[id].hasData THEN store[id].data ELSE Null,
                              dashboardConfig |-> IF store[id].hasData /\ Truthy(store[id].dashboardConfig)
                                                  THEN store[id].dashboardConfig ELSE Null,
                              reason |-> IF ~store[id].hasData /\ Truthy(store[id].reason)
                                         THEN store[id].reason ELSE Null]])

\* GET /sessions
listSessions(store) ==
  Response("sessions", 0, 200,
           [success |-> TRUE,
            sessions |-> {[sessionId |-> id, uploadTime |-> store[id].uploadTime,
                           hasData |-> store[id].hasData] : id \in DOMAIN store},
            totalSessions |-> Cardinality(DOMAIN store)])

\* the handler of POST /generate-dashboard makes no sessions.set
StoreAfterGenerate_Caching(store, id, response) ==
  IF HasSession(store, id) /\ response.status = 200
  THEN [store EXCEPT ![id].dashboardConfig = Config(Arr(<<>>), Arr(<<>>))]
  ELSE store

StoreAfterGenerate(store, id, response) == store

\* the first dashboard returned for each session, and whether there was
\* a second
FirstDashboard(history, id, response) ==
  IF response.status # 200 THEN history
  ELSE IF id \notin DOMAIN history
  THEN [k \in DOMAIN history \cup {id} |->
          IF k = id THEN [body |-> response.body, again |-> FALSE] ELSE history[k]]
  ELSE [history EXCEPT ![id].again = TRUE]

\* a sweep that also deletes the sessions that are exactly MaxAge old
Expired_AtLimit(store, t) == {id \in DOMAIN store : t - store[id].uploadTime >= MaxAge}

\* the sessions the sweep deletes at time t
Expired(store, t) == {id \in DOMAIN store : t - store[id].uploadTime > MaxAge}

InitStore ==
  /\ apiKey = TRUE
  /\ InitPass
  /\ raw = <<>> /\ decoded = NoResult /\ redecoded = NoResult
  /\ IdleExtract /\ IdleCalc /\ IdleStore /\ IdleFiles

StoreStep(store, ids, response, history) ==
  /\ sessions' = store
  /\ created' = ids
  /\ lastResponse' = response
  /\ generated' = history
  /\ UNCHANGED <<passVars, decodeVars, extractVars, calcVars, fileVars, now, nextSweep>>

Uploaded(u) == StoreStep(u.store, u.ids, u.response, generated)

Upload ==
  /\ created < MaxSessions
  /\ now <= UploadWindow
  /\ \E file \in {"none", "unreadable", "ok"} : \E script \in UploadScripts :
       Uploaded(upload(sessions, created, file, script, now))

SessionIds == 1..MaxSessions

GetSession == \E id \in SessionIds : StoreStep(sessions, created, getSession(sessions, id), generated)

GetRawData == \E id \in SessionIds : StoreStep(sessions, created, getRawData(sessions, id), generated)

GetExtractedText ==
  \E id \in SessionIds : StoreStep(sessions, created, getExtractedText(sessions, id), generated)

ListSessions == StoreStep(sessions, created, listSessions(sessions), generated)

Generated(id, response) ==
  StoreStep(StoreAfterGenerate(sessions, id, response), created,
            Response("generate", id, response.status, response.body),
            FirstDashboard(generated, id, response))

GenerateDashboard == \E id \in SessionIds : Generated(id, generateDashboard(GetOr(sessions, id)))

\* DELETE /sessions
ClearSessions ==
  StoreStep(NoSessions, created,
            Response("clear", 0, 200, [success |-> TRUE, count |-> Cardinality(DOMAIN sessions)]),
            generated)

\* what the sweep writes to the console: a line for each session it deleted
SweepLog(ids) == [route |-> "sweep", cleaned |-> ids]

\* the setInterval callback, when it is due
Sweep ==
  /\ now = nextSweep
  /\ sessions' = DeleteSessions(sessions, Expired(sessions, now))
  /\ nextSweep' = nextSweep + SweepPeriod
  /\ lastResponse' = SweepLog(Expired(sessions, now))
  /\ UNCHANGED <<passVars, decodeVars, extractVars, calcVars, fileVars, created, now, generated>>

\* the clock is sampled every half period while uploads arrive and once the
\* first sessions are about to expire, and once per sweep in between
ClockStep(t) ==
  IF t % SweepPeriod = 0 /\ t > UploadWindow /\ t + SweepPeriod < MaxAge THEN SweepPeriod
  ELSE TickMs

\* time passes, never past a sweep that is due
Tick ==
  /\ now < nextSweep
  /\ now + ClockStep(now) <= Horizon
  /\ now' = now + ClockStep(now)
  /\ lastResponse' = NoResult
  /\ UNCHANGED <<passVars, decodeVars, extractVars, calcVars, fileVars, sessions, created,
               nextSweep, generated>>

NextStore ==
  \/ Upload \/ GetSession \/ GetRawData \/ GetExtractedText \/ ListSessions
  \/ GenerateDashboard \/ ClearSessions \/ Sweep \/ Tick

SpecStore == InitStore /\ [][NextStore]_vars

\* ------------------------------------------------------------------------
\* DocumentProcessor with size limits: the limits on the extracted text
\* (SpecSize).  A text is handed to validateTextSize.
\* ------------------------------------------------------------------------
maxChars == 100000

\* the last run of the white space that starts at run i
WsEnd(s, i) == FirstIn({p \in i..Len(s) : ~IsWs(s[p].c)}, Len(s) + 1) - 1

NewlineRuns(s, i, e) == {p \in i..e : s[p].c = NL}

\* /\n\s*\n/ matches in the white space s[i..e]: it holds two newlines
HasBlankLine(s, i, e) ==
  \/ \E p \in NewlineRuns(s, i, e) : s[p].n >= 2
  \/ Cardinality(NewlineRuns(s, i, e)) >= 2

FirstNewline(s, i, e) == CHOOSE p \in NewlineRuns(s, i, e) : \A q \in NewlineRuns(s, i, e) : p <= q

LastNewline(s, i, e) == CHOOSE p \in NewlineRuns(s, i, e) : \A q \in NewlineRuns(s, i, e) : q <= p

\* text.split(/\n\s*\n/): the match starts at the first newline of a stretch
\* of white space and, \s* being greedy, ends at its last newline; the
\* blanks before and after stay with the sections
RECURSIVE SplitSectionsFrom(_, _, _, _)
SplitSectionsFrom(s, i, cur, acc) ==
  IF i > Len(s) THEN Append(acc, cur)
  ELSE IF ~IsWs(s[i].c) THEN SplitSectionsFrom(s, i + 1, Cat(cur, <<s[i]>>), acc)
  ELSE IF HasBlankLine(s, i, WsEnd(s, i))
  THEN SplitSectionsFrom(s, WsEnd(s, i) + 1,
                         SubSeq(s, LastNewline(s, i, WsEnd(s, i)) + 1, WsEnd(s, i)),
                         Append(acc, Cat(cur, SubSeq(s, i, FirstNewline(s, i, WsEnd(s, i)) - 1))))
  ELSE SplitSectionsFrom(s, WsEnd(s, i) + 1, Cat(cur, SubSeq(s, i, WsEnd(s, i))), acc)

SplitSections(s) == SplitSectionsFrom(s, 1, <<>>, <<>>)

\* of the nine dataPatterns, /\d{1,3}(,\d{3})*/ matches as soon as the
\* section holds a digit, and each of the others needs a digit to match
sectionContainsData(section) == HasDigit(section)

extractNumericalSections(text) == SelectSeq(SplitSections(text), sectionContainsData)

BlankLine == <<Run(NL, 2)>>

\* sections.join('\n\n')
RECURSIVE JoinSections(_)
JoinSections(ls) ==
  IF ls = <<>> THEN <<>>
  ELSE IF Len(ls) = 1 THEN ls[1]
  ELSE Cat(Cat(ls[1], BlankLine), JoinSections(Tail(ls)))

\* the second pass: the sections with data, until one does not fit
RECURSIVE AddPreserved(_, _)
AddPreserved(preserved, soFar) ==
  IF preserved = <<>> THEN soFar
  ELSE IF StrLen(soFar) + StrLen(Head(preserved)) <= maxChars
  THEN AddPreserved(Tail(preserved), Cat(Cat(soFar, Head(preserved)), BlankLine))
  ELSE soFar

Includes(ls, x) == \E i \in 1..Len(ls) : ls[i] = x

\* the other sections, each one that still fits
RECURSIVE AddOthers(_, _, _)
AddOthers(sections, preserved, soFar) ==
  IF sections = <<>> THEN soFar
  ELSE IF ~Includes(preserved, Head(sections))
            /\ StrLen(soFar) + StrLen(Head(sections)) <= maxChars
  THEN AddOthers(Tail(sections), preserved, Cat(Cat(soFar, Head(sections)), BlankLine))
  ELSE AddOthers(Tail(sections), preserved, soFar)

\* if (result.length < targetSize * 0.8)
FillUp(sections, preserved, soFar) ==
  IF 5 * StrLen(soFar) < 4 * maxChars THEN AddOthers(sections, preserved, soFar)
  ELSE soFar

\* the numerical sections when their join by '\n' fits (returned joined by
\* '\n\n'), else the accumulated sections, trimmed
Truncated(sections, numericalSections) ==
  IF numericalSections # <<>> /\ StrLen(JoinLines(numericalSections)) <= maxChars
  THEN JoinSections(numericalSections)
  ELSE TrimStr(FillUp(sections, numericalSections, AddPreserved(numericalSections, <<>>)))

truncateIntelligently(text) == Truncated(SplitSections(text), extractNumericalSections(text))

\* text.split(/\s+/).length: one more than the stretches of white space
WordCount(s) == Cardinality({i \in 1..Len(s) : IsWs(s[i].c) /\ (i = 1 \/ ~IsWs(s[i - 1].c))}) + 1

validateTextSize(text) ==
  [chars |-> StrLen(text),
   words |-> WordCount(text),
   tokens |-> EstimateTokensOfLen(StrLen(text)),
   processedText |-> IF StrLen(text) > maxChars THEN truncateIntelligently(text) ELSE text,
   wasLimited |-> StrLen(text) > maxChars]

MaxSections == 3

SectionLengths == {10, 39998, 49999, 50000, 60000}

\* a section of digits (data) or of letters
SectionKinds == {<<Run(c, n)>> : c \in {"7", "x"}, n \in SectionLengths}

Separators == {BlankLine, <<Run(NL, 1), Run(" ", 1), Run(NL, 1)>>}

RECURSIVE JoinWith(_, _)
JoinWith(ls, sep) ==
  IF ls = <<>> THEN <<>>
  ELSE IF Len(ls) = 1 THEN ls[1]
  ELSE Cat(Cat(ls[1], sep), JoinWith(Tail(ls), sep))

\* up to MaxSections sections with a blank line between them
SizeTexts ==
  {JoinWith(secs, sep) : secs \in SeqsUpTo(SectionKinds, MaxSections), sep \in Separators}

InitSize ==
  /\ apiKey = TRUE
  /\ InitPass
  /\ raw = <<>> /\ decoded = NoResult /\ redecoded = NoResult
  /\ IdleExtract /\ IdleCalc /\ IdleStore /\ IdleDoc
  /\ textIn \in SizeTexts
  /\ textInfo = NoResult

ValidateTextSize ==
  /\ textInfo = NoResult
  /\ textInfo' = validateTextSize(textIn)
  /\ UNCHANGED <<passVars, decodeVars, extractVars, calcVars, storeVars, docVars, textIn>>

NextSize == ValidateTextSize

SpecSize == InitSize /\ [][NextSize]_vars

\* ------------------------------------------------------------------------
\* DocumentProcessor: processFile for uploads handled at the same time
\* (SpecDoc).  There is one DocumentProcessor (module.exports = new
\* DocumentProcessor()).  A call runs from one operation it awaits (the PDF
\* parser, the image library, the OCR worker) to the next; the calls of the
\* other requests run in between.  Each awaited operation may fail.
\* ------------------------------------------------------------------------
MaxUploads == 2

Uploads == 1..MaxUploads

\* file.path: multer gives every upload a name of its own
UploadedFile(u) == [name |-> "file", upload |-> u]

\* imagePath.replace(/\.[^/.]+$/, '_processed.png')
ProcessedImage(u) == [name |-> "file_processed", upload |-> u]

\* an upload multer lets through: a PDF, an image up to 2000 x 2000, a
\* larger image, an image file over 20 MB, and a file with another extension
FileKinds ==
  {[ext |-> ".pdf", oversize |-> FALSE, wide |-> FALSE],
   [ext |-> ".png", oversize |-> FALSE, wide |-> FALSE],
   [ext |-> ".png", oversize |-> FALSE, wide |-> TRUE],
   [ext |-> ".png", oversize |-> TRUE, wide |-> TRUE],
   [ext |-> ".txt", oversize |-> FALSE, wide |-> FALSE]}

IsImage(file) == file.ext \in {".png", ".jpg", ".jpeg"}

MinContent == 50

\* 49,999 digits, an empty line, 50,000 digits
OverLimitText == <<Run("7", 49999), Run(NL, 2), Run("7", 50000)>>

\* what the PDF parser or the OCR worker may find in a file
DocTexts == {<<>>, <<Run(" ", 2)>>, ShortNumericText, <<Run("7", 60)>>, OverLimitText}

NoJob == [pc |-> "none", file |-> NoResult, target |-> 0, image |-> "none", out |-> NoResult]

NewWorker == [loaded |-> FALSE, initialized |-> FALSE]

IsReady(w) == w.loaded /\ w.initialized

OtherVars == <<passVars, decodeVars, extractVars, calcVars, storeVars, sizeVars>>

InitDoc ==
  /\ apiKey = TRUE
  /\ InitPass
  /\ raw = <<>> /\ decoded = NoResult /\ redecoded = NoResult
  /\ IdleExtract /\ IdleCalc /\ IdleStore /\ IdleSize
  /\ docVariant \in {"plain", "limits"}
  /\ tesseractWorker = 0
  /\ workers = <<>>
  /\ files = {}
  /\ jobs = [u \in Uploads |-> NoJob]
  /\ ocrLog = {}

\* cleanupFile(filePath): the file is removed if it is there
cleanupFile(fs, path) == fs \ {path}

\* processFile's catch: cleanupFile(file.path) and the error is thrown on
Throws(u, message, fs) ==
  /\ jobs' = [jobs EXCEPT ![u].pc = "thrown", ![u].out = Thrown(message)]
  /\ files' = cleanupFile(fs, UploadedFile(u))

Returns(u, value, fs) ==
  /\ jobs' = [jobs EXCEPT ![u].pc = "returned", ![u].out = Returned(value)]
  /\ files' = fs

\* what processFile returns for a text, after the uploaded file was removed
Extraction_Doc(variant, text) ==
  IF variant = "limits"
  THEN [extractedText |-> validateTextSize(text).processedText,
        contentLength |-> validateTextSize(text).chars,
        wasLimited |-> validateTextSize(text).wasLimited]
  ELSE [extractedText |-> text, contentLength |-> StrLen(text), wasLimited |-> FALSE]

\* processFile once the text is extracted: the uploaded file is removed,
\* then the text is checked (plain) or limited (limits)
Finish(u, text, fs) ==
  IF docVariant = "plain" /\ StrLen(TrimStr(text)) < MinContent
  THEN Throws(u, "No readable content found in the document", cleanupFile(fs, UploadedFile(u)))
  ELSE Returns(u, Extraction_Doc(docVariant, text), cleanupFile(fs, UploadedFile(u)))

\* multer has written the upload to disk
Receive ==
  \E u \in Uploads : \E file \in FileKinds :
    /\ jobs[u].pc = "none"
    /\ jobs' = [jobs EXCEPT ![u].pc = "received", ![u].file = file]
    /\ files' = files \cup {UploadedFile(u)}
    /\ UNCHANGED <<OtherVars, docVariant, tesseractWorker, workers, ocrLog>>

\* preprocessImage up to its first await: the metadata (limits) or the
\* conversion (plain)
PreprocessStarts(u) ==
  jobs' = [jobs EXCEPT ![u].pc = IF docVariant = "limits" THEN "metadata" ELSE "toFile"]

\* processFile up to its first await.  In initTesseract the worker is
\* requested when this.tesseractWorker is null, else the image is preprocessed
ProcessFile ==
  \E u \in Uploads :
    /\ jobs[u].pc = "received"
    /\ IF docVariant = "limits" /\ jobs[u].file.oversize
       THEN Throws(u, "File too large", files)
       ELSE IF jobs[u].file.ext = ".pdf"
       THEN jobs' = [jobs EXCEPT ![u].pc = "pdf"] /\ files' = files
       ELSE IF ~IsImage(jobs[u].file)
       THEN Throws(u, "Unsupported file format", files)
       ELSE IF tesseractWorker = 0
       THEN jobs' = [jobs EXCEPT ![u].pc = "createWorker"] /\ files' = files
       ELSE PreprocessStarts(u) /\ files' = files
    /\ UNCHANGED <<OtherVars, docVariant, tesseractWorker, workers, ocrLog>>

\* pdf(dataBuffer) settles
PdfParsed ==
  \E u \in Uploads : \E ok \in BOOLEAN : \E text \in DocTexts :
    /\ jobs[u].pc = "pdf"
    /\ IF ~ok \/ StrLen(TrimStr(text)) = 0
       THEN Throws(u, "Failed to extract text from PDF", files)
       ELSE Finish(u, text, files)
    /\ UNCHANGED <<OtherVars, docVariant, tesseractWorker, workers, ocrLog>>

\* createWorker() settles: the worker is stored in this.tesseractWorker and
\* asked to load the language
WorkerCreated ==
  \E u \in Uploads : \E ok \in BOOLEAN :
    /\ jobs[u].pc = "createWorker"
    /\ IF ok
       THEN /\ workers' = Append(workers, NewWorker)
            /\ tesseractWorker' = Len(workers) + 1
            /\ jobs' = [jobs EXCEPT ![u].pc = "loadLanguage", ![u].target = Len(workers) + 1]
            /\ files' = files
       ELSE /\ Throws(u, "Failed to extract text from image", files)
            /\ UNCHANGED <<tesseractWorker, workers>>
    /\ UNCHANGED <<OtherVars, docVariant, ocrLog>>

\* loadLanguage('eng') settles: this.tesseractWorker, read again, is asked
\* to initialize
LanguageLoaded ==
  \E u \in Uploads : \E ok \in BOOLEAN :
    /\ jobs[u].pc = "loadLanguage"
    /\ IF ok
       THEN /\ workers' = [workers EXCEPT ![jobs[u].target].loaded = TRUE]
            /\ jobs' = [jobs EXCEPT ![u].pc = "initialize", ![u].target = tesseractWorker]
            /\ files' = files
       ELSE /\ Throws(u, "Failed to extract text from image", files)
            /\ UNCHANGED workers
    /\ UNCHANGED <<OtherVars, docVariant, tesseractWorker, ocrLog>>

\* initialize('eng') settles: initTesseract returns and the image is
\* preprocessed
Initialized ==
  \E u \in Uploads : \E ok \in BOOLEAN :
    /\ jobs[u].pc = "initialize"
    /\ IF ok
       THEN /\ workers' = [workers EXCEPT ![jobs[u].target].initialized = TRUE]
            /\ PreprocessStarts(u)
            /\ files' = files
       ELSE /\ Throws(u, "Failed to extract text from image", files)
            /\ UNCHANGED workers
    /\ UNCHANGED <<OtherVars, docVariant, tesseractWorker, ocrLog>>

\* this.tesseractWorker.recognize(processedImagePath) is called
Recognizes(u, image) ==
  /\ jobs' = [jobs EXCEPT ![u].pc = "recognize", ![u].image = image,
                          ![u].target = tesseractWorker]
  /\ ocrLog' = ocrLog \cup {[upload |-> u, worker |-> tesseractWorker,
                             ready |-> IsReady(workers[tesseractWorker])]}

\* sharp(imagePath).metadata() settles (limits): an image up to 2000 x 2000
\* is recognized as it is, and so is one whose metadata cannot be read
MetadataRead ==
  \E u \in Uploads : \E ok \in BOOLEAN :
    /\ jobs[u].pc = "metadata"
    /\ IF ok /\ jobs[u].file.wide
       THEN jobs' = [jobs EXCEPT ![u].pc = "toFile"] /\ ocrLog' = ocrLog
       ELSE Recognizes(u, "original")
    /\ UNCHANGED <<OtherVars, docVariant, tesseractWorker, workers, files>>

\* sharp(imagePath)...toFile(outputPath) settles: the converted image is
\* recognized, or the original when the conversion failed
ImageWritten ==
  \E u \in Uploads : \E ok \in BOOLEAN :
    /\ jobs[u].pc = "toFile"
    /\ IF ok
       THEN Recognizes(u, "processed") /\ files' = files \cup {ProcessedImage(u)}
       ELSE Recognizes(u, "original") /\ files' = files
    /\ UNCHANGED <<OtherVars, docVariant, tesseractWorker, workers>>

\* the files after processImage's clean-up of the converted image
AfterOcr(fs, u, image) == IF image = "processed" THEN cleanupFile(fs, ProcessedImage(u)) ELSE fs

\* recognize settles: a failure goes to the catch of processImage, which
\* throws it on; a text has the converted image removed first
Recognized ==
  \E u \in Uploads : \E ok \in BOOLEAN : \E text \in DocTexts :
    /\ jobs[u].pc = "recognize"
    /\ IF ~ok THEN Throws(u, "Failed to extract text from image", files)
       ELSE IF StrLen(TrimStr(text)) = 0
       THEN Throws(u, "Failed to extract text from image", AfterOcr(files, u, jobs[u].image))
       ELSE Finish(u, text, AfterOcr(files, u, jobs[u].image))
    /\ UNCHANGED <<OtherVars, docVariant, tesseractWorker, workers, ocrLog>>

NextDoc ==
  \/ Receive \/ ProcessFile \/ PdfParsed \/ WorkerCreated \/ LanguageLoaded \/ Initialized
  \/ MetadataRead \/ ImageWritten \/ Recognized

SpecDoc == InitDoc /\ [][NextDoc]_vars

\* ------------------------------------------------------------------------
\* Properties of one analyzeDocument pass (Spec)
\* ------------------------------------------------------------------------
IsSent(c) == c.sent

\* the settled invocations whose request went out: the k-th is netLog[k]
SentCalls == SelectSeq(callLog, IsSent)

VerdictDecoded == analysisResult # Undefined

VerdictPositive ==
  CanRead(analysisResult) /\ Truthy(Member(analysisResult, K_hasData))

\* C1: once the classifier's verdict is in and its hasData is false or falsy,
\* the pass has posted nothing after the classification request, no extraction
\* or config call is made or pending, and (for a verdict that can be read)
\* analyzeDocument has returned {hasData: false, reason}.
C1_NoDataShortCircuits ==
  (VerdictDecoded /\ ~VerdictPositive) =>
    /\ \A i \in 1..Len(netLog) : netLog[i].stage \notin {"extract", "config"}
    /\ \A i \in 1..Len(callLog) : callLog[i].prompt.stage \notin {"extract", "config"}
    /\ netLog # <<>> /\ netLog[Len(netLog)].stage = "classify"
    /\ call = NoCall
    /\ CanRead(analysisResult) =>
         /\ pc = "done"
         /\ result.kind = "noData"
         /\ result.reason = IF Truthy(Member(analysisResult, K_reason))
                            THEN Member(analysisResult, K_reason)
                            ELSE Str(DefaultReasonChars)

C1_Witness ==
  /\ result.kind = "noData"
  /\ analysisResult.t = "obj"
  /\ Member(analysisResult, K_hasData) = Bool(FALSE)
  /\ StrLen(extractedText) > 0

\* C2: every content preprocessLargeText has returned in the pass has an
\* estimated token count of at most safeTextLimit.
C2_ReducedWithinBudget ==
  \A i \in 1..Len(reductions) :
    (StrLen(reductions[i].content) + 3) \div 4 <= safeTextLimit

\* C3: for a text whose estimate is at most safeTextLimit (the boundary and
\* the empty text included), every preprocessLargeText of the pass returns
\* exactly that text, and no summarization call is made, pending or posted.
C3_WithinBudgetUnchanged ==
  ((StrLen(extractedText) + 3) \div 4 <= safeTextLimit) =>
    /\ \A i \in 1..Len(reductions) :
         reductions[i].content = extractedText /\ reductions[i].strategy = "asIs"
    /\ \A i \in 1..Len(netLog) : netLog[i].stage # "summarize"
    /\ \A i \in 1..Len(callLog) : callLog[i].prompt.stage # "summarize"
    /\ call.stage # "summarize"
    /\ pc \in {"callAI", "await", "done"} => reductions # <<>>

C3_Witness ==
  /\ StrLen(extractedText) = 4 * safeTextLimit
  /\ reductions # <<>>
  /\ reductions[1].content = extractedText

\* C4: whenever a summarization call has failed (the prompt was refused, the
\* service rejected it or did not answer, or the answer had no content), the
\* preprocessLargeText that made it has returned the best-chunk selection of
\* its numeric content, and the pass has not failed in the reduction.
C4_SummarizeFailureFallsBack ==
  /\ \A i \in 1..Len(callLog) :
       (callLog[i].prompt.stage = "summarize"
          /\ (~callLog[i].res.ok \/ callLog[i].res.value.t = "undef")) =>
         \E j \in 1..Len(reductions) :
           /\ reductions[j].caller = callLog[i].caller
           /\ reductions[j].strategy = "summarizeFallback"
           /\ reductions[j].content = selectBestChunks(extractNumericalContent(extractedText))
  /\ \A i \in 1..Len(callLog) :
       callLog[i].prompt.stage = "summarize" =>
         \E j \in 1..Len(reductions) : reductions[j].caller = callLog[i].caller
  /\ result.kind = "error" =>
       result.stage \in {"configuration", "classification", "analyze", "extraction", "config"}

C4_Witness ==
  \E i \in 1..Len(callLog) :
    /\ callLog[i].prompt.stage = "summarize"
    /\ callLog[i].outcome = "noResponse"
    /\ \E j \in 1..Len(reductions) : reductions[j].strategy = "summarizeFallback"
    /\ pc = "callAI"

\* C5: a callAI invocation whose prompt estimate exceeds maxInputTokens has
\* failed without posting, and every posted request has a prompt estimate of
\* at most maxInputTokens.
C5_OversizedPromptNeverSent ==
  /\ \A i \in 1..Len(callLog) :
       ((callLog[i].prompt.len + 3) \div 4 > maxInputTokens) =>
         ~callLog[i].sent /\ ~callLog[i].res.ok
  /\ \A i \in 1..Len(netLog) : (netLog[i].len + 3) \div 4 <= maxInputTokens
  /\ Len(netLog) = Len(SentCalls) + (IF pc = "await" THEN 1 ELSE 0)

C5_Witness ==
  \E i \in 1..Len(callLog) :
    /\ (callLog[i].prompt.len + 3) \div 4 > maxInputTokens
    /\ ~callLog[i].sent
    /\ callLog[i].res = PromptTooLarge

\* C6: every callAI invocation posts at most one request; a request that
\* failed is never posted again in the pass; after a failed classification,
\* extraction or config call nothing more is posted and the pass has failed;
\* and a failed summarization call is followed by the chunking fallback.
C6_NoFailedRequestReissued ==
  /\ Len(netLog) <= Len(callLog) + (IF pc = "await" THEN 1 ELSE 0)
  /\ \A k \in 1..Len(SentCalls) :
       ~SentCalls[k].res.ok =>
         \A j \in (k + 1)..Len(netLog) : netLog[j] # SentCalls[k].prompt
  /\ \A i \in 1..Len(callLog) :
       (callLog[i].prompt.stage # "summarize" /\ ~callLog[i].res.ok) =>
         i = Len(callLog) /\ pc = "failed" /\ Len(netLog) = Len(SentCalls)
  /\ \A i \in 1..Len(callLog) :
       (callLog[i].prompt.stage = "summarize" /\ ~callLog[i].res.ok) =>
         \E j \in 1..Len(reductions) :
           reductions[j].caller = callLog[i].caller
             /\ reductions[j].strategy = "summarizeFallback"

\* C7: a callAI invocation whose request was answered with a success status
\* and no content has failed with an error.
C7_MissingContentFails ==
  \A i \in 1..Len(callLog) : callLog[i].outcome = "noContent" => ~callLog[i].res.ok

\* C10: analyzeDocument has returned "no data" only after a classification
\* call that succeeded and whose answer decoded; and once a classification
\* call has failed or its answer has failed to decode, the pass has failed
\* with a classification-stage error.
C10_NoDataOnlyFromDecodedVerdict ==
  /\ result.kind = "noData" =>
       \E i \in 1..Len(callLog) :
         /\ callLog[i].prompt.stage = "classify"
         /\ callLog[i].sent
         /\ callLog[i].res.ok
         /\ parseJSONResponse(callLog[i].res.value).ok
  /\ \A i \in 1..Len(callLog) :
       (callLog[i].prompt.stage = "classify"
          /\ (~callLog[i].res.ok \/ ~parseJSONResponse(callLog[i].res.value).ok)) =>
         /\ pc = "failed"
         /\ result.kind = "error"
         /\ result.stage = "classification"

C10_Witness ==
  /\ \E i \in 1..Len(callLog) :
       /\ callLog[i].prompt.stage = "classify"
       /\ callLog[i].res.ok
       /\ callLog[i].res.value = Str(RawProse)
  /\ result.kind = "error"
  /\ result.stage = "classification"
  /\ result.cause = "InvalidJSON"

\* ------------------------------------------------------------------------
\* Properties of parseJSONResponse (SpecDecode)
\* ------------------------------------------------------------------------
Cleaned == StripFences(TrimChars(raw))

\* C8: parseJSONResponse returns a value only for a response in which, after
\* trimming and fence removal, a "{" and a "}" are found.
C8_OnlyBracedPayloadDecodes ==
  (decoded # NoResult /\ decoded.ok) =>
    \E i \in 1..Len(Cleaned), j \in 1..Len(Cleaned) : Cleaned[i] = "{" /\ Cleaned[j] = "}"

\* C9: for an object o that parseJSONResponse returned,
\* parseJSONResponse(JSON.stringify(o)) succeeds and equals o.
C9_RedecodeReturnsSameObject ==
  (redecoded # NoResult /\ decoded.v.t = "obj") =>
    redecoded.ok /\ redecoded.v = decoded.v

\* ------------------------------------------------------------------------
\* Properties of the extractors (SpecExtract)
\* ------------------------------------------------------------------------
DecodedPayload ==
  IF exOutcome.kind = "content" THEN parseJSONResponse(exOutcome.value)
  ELSE [ok |-> FALSE, err |-> "NoPayload"]

HasEnoughRecords(v, min) ==
  Member(v, K_data).t = "arr" /\ Len(Member(v, K_data).a) >= min

\* the result part of C11: what the extractor returns has a data array of at
\* least the service's minimum, and it is what the config stage is given
ExtractedIsValid ==
  (exResult # NoResult /\ exResult.kind = "extracted") =>
    HasEnoughRecords(exResult.data, MinRecordsOf(exVariant)) /\ exResult.next = "config"

\* C11: the extractor returns a result only with a data array of at least the
\* minimum (2 chunking, 3 plain), and every decoded payload whose data is
\* missing, not an array or too short fails with the insufficient-data error.
C11_ExtractorValidatesRecords ==
  /\ ExtractedIsValid
  /\ (exResult # NoResult /\ DecodedPayload.ok
        /\ ~HasEnoughRecords(DecodedPayload.v, MinRecordsOf(exVariant))) =>
       exResult = ExtractionError("InsufficientData")

SameKind(e, f) == ThrownError(e).name = ThrownError(f).name

IsOtherExtractionFailure(e) == e.kind = "error" /\ e.cause # "InsufficientData"

\* C12: the error thrown for too few records is of another kind than every
\* error the same extractor throws for a failed request or a failed decode.
C12_ValidationErrorIsDistinctKind ==
  (exResult = ExtractionError("InsufficientData")) =>
    \A o \in ExtractionOutcomes :
      IsOtherExtractionFailure(Extraction(exVariant, o)) =>
        ~SameKind(Extraction(exVariant, o), exResult)

\* ------------------------------------------------------------------------
\* Properties of the calculator (SpecCalc)
\* ------------------------------------------------------------------------
KpisDone == calcOut # NoResult /\ calcOut.kind = "kpis"

ChartsDone == calcOut # NoResult /\ calcOut.kind = "charts"

DashboardDone == calcOut # NoResult /\ calcOut.kind = "dashboard"

\* the rows whose value in the column parses as a number
ParseableRows(data, col) ==
  {i \in 1..Len(data) : CanRead(data[i]) /\ ~parseFloat(Member(data[i], PropertyKey(col))).nan}

RECURSIVE SumOverRows(_, _, _)
SumOverRows(data, col, rows) ==
  IF rows = {} THEN 0
  ELSE LET i == CHOOSE j \in rows : TRUE
       IN parseFloat(Member(data[i], PropertyKey(col))).n + SumOverRows(data, col, rows \ {i})

KindOf(kpi) == toLowerCase(Member(kpi, K_calculation).s)

IsParseableSum(kpi) ==
  Member(kpi, K_value)
    = Num(SumOverRows(calcIn.data, Member(kpi, K_column),
                      ParseableRows(calcIn.data, Member(kpi, K_column))))

\* value = sum / count, as value * count = sum
IsParseableAverage(kpi) ==
  IF ParseableRows(calcIn.data, Member(kpi, K_column)) = {}
  THEN Member(kpi, K_value) = Num(0)
  ELSE Numerator(Member(kpi, K_value))
         * Cardinality(ParseableRows(calcIn.data, Member(kpi, K_column)))
       = Denominator(Member(kpi, K_value))
           * SumOverRows(calcIn.data, Member(kpi, K_column),
                         ParseableRows(calcIn.data, Member(kpi, K_column)))

ValueNamed(kpis, name) ==
  Member(kpis[CHOOSE i \in 1..Len(kpis) : Member(kpis[i], K_name) = Str(name)], K_value)

\* C17: a sum KPI is the sum of the column's values that parse as numbers
\* (the others count as 0); an avg KPI is that sum divided by the number of
\* rows whose value parses, 0 when none does; over the revenues "100", "abc",
\* 200 the sum is 300 and the average 150.
C17_SumAndAverageOverParseable ==
  (KpisDone /\ calcOut.out.ok) =>
    /\ \A i \in 1..Len(calcOut.out.v) :
         /\ KindOf(calcOut.out.v[i]) = <<"s", "u", "m">> => IsParseableSum(calcOut.out.v[i])
         /\ KindOf(calcOut.out.v[i]) \in {<<"a", "v", "g">>, <<"a", "v", "e", "r", "a", "g", "e">>}
              => IsParseableAverage(calcOut.out.v[i])
    /\ (calcIn.data = ExampleRows /\ Member(calcIn.config, K_kpis) = StandardKpis) =>
         /\ ValueNamed(calcOut.out.v, <<"T", "o", "t", "a", "l">>) = Num(300)
         /\ ValueNamed(calcOut.out.v, <<"M", "e", "a", "n">>) = Num(150)

\* the example's KPIs have been computed: one of three revenues does not parse
C17_Witness ==
  /\ KpisDone /\ calcOut.out.ok
  /\ calcIn.data = ExampleRows
  /\ Member(calcIn.config, K_kpis) = StandardKpis
  /\ Len(calcOut.out.v) = 2
  /\ Cardinality(ParseableRows(calcIn.data, Str(K_revenue))) = 2

KpiDefinitions == Member(calcIn.config, K_kpis)

FormatReadable(def) == Member(def, K_format).t \in {"undef", "null", "str"}

\* a definition calculateKPIs turns into a KPI, given the kinds it knows
YieldsWith(def, kinds) ==
  /\ def.t = "obj"
  /\ Member(def, K_calculation).t = "str"
  /\ toLowerCase(Member(def, K_calculation).s) \in kinds
  /\ FormatReadable(def)
  /\ (toLowerCase(Member(def, K_calculation).s) = <<"c", "o", "u", "n", "t">>
        \/ RowsReadable(calcIn.data))

YieldsKpi(def) ==
  YieldsWith(def, {<<"s", "u", "m">>, <<"a", "v", "g">>, <<"a", "v", "e", "r", "a", "g", "e">>,
                   <<"c", "o", "u", "n", "t">>, <<"m", "a", "x">>, <<"m", "i", "n">>})

\* the kinds the specification lists, spelled as listed
IsListedKind(def) ==
  /\ def.t = "obj"
  /\ Member(def, K_calculation)
       \in {Str(<<"s", "u", "m">>), Str(<<"a", "v", "g">>), Str(<<"c", "o", "u", "n", "t">>),
            Str(<<"m", "a", "x">>), Str(<<"m", "i", "n">>)}

\* kpis is the KPI of each definition of defs, in order, each as computed alone
IsKpiPerDefinition(kpis, defs) ==
  /\ Len(kpis) = Len(defs)
  /\ \A i \in 1..Len(defs) :
       /\ kpis[i] = calculateSingleKPI(calcIn.data, defs[i]).v
       /\ Member(kpis[i], K_name) = Member(defs[i], K_name)
       /\ toLowerCase(Member(defs[i], K_calculation).s) = <<"c", "o", "u", "n", "t">>
            => Member(kpis[i], K_value) = Num(Len(calcIn.data))

HasNullDefinition == \E i \in 1..Len(KpiDefinitions.a) : ~CanRead(KpiDefinitions.a[i])

OrdinaryDefinitions ==
  /\ KpiDefinitions.t = "arr"
  /\ \A i \in 1..Len(KpiDefinitions.a) :
       /\ KpiDefinitions.a[i].t = "obj"
       /\ Member(KpiDefinitions.a[i], K_calculation).t = "str"
       /\ FormatReadable(KpiDefinitions.a[i])

C19_AggregationNeverFails ==
  /\ (KpisDone \/ ChartsDone) => calcOut.out.ok
  /\ DashboardDone => calcOut.out.status = 200

AllStrings(v) == v.t = "arr" /\ v.a # <<>> /\ \A i \in 1..Len(v.a) : v.a[i].t = "str"

\* a chart definition with at least one measure and one dimension
IsAggregating(def) ==
  /\ def.t = "obj"
  /\ AllStrings(Member(def, K_measures))
  /\ AllStrings(Member(def, K_dimensions))

\* the value a record has in the dimension; a missing one is "Unknown"
LabelOf(row, dim) ==
  IF Member(row, dim).t \in {"undef", "null"} THEN Str(UnknownGroup) ELSE Member(row, dim)

Labels(dim) == {LabelOf(calcIn.data[j], dim) : j \in 1..Len(calcIn.data)}

RowsOf(label, dim) == {j \in 1..Len(calcIn.data) : LabelOf(calcIn.data[j], dim) = label}

GroupSum(label, dim, measure) ==
  SumOverRows(calcIn.data, measure, RowsOf(label, dim) \cap ParseableRows(calcIn.data, measure))

ChartLabels(points, dim) == {Member(points[p], dim) : p \in 1..Len(points)}

\* the points of one chart are the top groups of the first dimension
IsGroupedChart(points, dim, measures) ==
  /\ Len(points) = (IF Cardinality(Labels(dim)) < ChartLimit THEN Cardinality(Labels(dim))
                    ELSE ChartLimit)
  /\ Cardinality(ChartLabels(points, dim)) = Len(points)
  /\ ChartLabels(points, dim) \subseteq Labels(dim)
  /\ \A p \in 1..Len(points) : \A m \in 1..Len(measures) :
       Member(points[p], measures[m].s)
         = Num(GroupSum(Member(points[p], dim), dim, measures[m]))
  /\ \A p, q \in 1..Len(points) :
       p < q => Member(points[p], measures[1].s).n >= Member(points[q], measures[1].s).n
  /\ \A l \in Labels(dim) \ ChartLabels(points, dim) : \A p \in 1..Len(points) :
       GroupSum(l, dim, measures[1]) <= Member(points[p], measures[1].s).n

ChartId(i) == Str(<<"c", "h", "a", "r", "t", "_">> \o NumToChars(i))

HasChart(charts, i) == \E c \in 1..Len(charts) : Member(charts[c], K_id) = ChartId(i)

ChartData(charts, i) ==
  Member(charts[CHOOSE c \in 1..Len(charts) : Member(charts[c], K_id) = ChartId(i)], K_data).a

ChartDefinitions == Member(calcIn.config, K_charts)

AllObjects(data) == \A j \in 1..Len(data) : data[j].t = "obj"

NoNullChartDefinition ==
  ChartDefinitions.t = "arr" /\ \A i \in 1..Len(ChartDefinitions.a) : CanRead(ChartDefinitions.a[i])

\* C20: for a definition with a measure and a dimension, the chart has one
\* data point per distinct value of the first dimension, carrying that value
\* and the sum of each measure over the group's records, in non-increasing
\* order of the first measure, cut to the top 20.
C20_OnePointPerDimensionValue ==
  (ChartsDone /\ NoNullChartDefinition /\ AllObjects(calcIn.data) /\ calcIn.data # <<>>) =>
    \A i \in 1..Len(ChartDefinitions.a) :
      IsAggregating(ChartDefinitions.a[i]) =>
        /\ calcOut.out.ok
        /\ HasChart(calcOut.out.v, i - 1)
        /\ IsGroupedChart(ChartData(calcOut.out.v, i - 1),
                          Member(ChartDefinitions.a[i], K_dimensions).a[1].s,
                          Member(ChartDefinitions.a[i], K_measures).a)

\* ------------------------------------------------------------------------
\* Properties of the session store (SpecStore)
\* ------------------------------------------------------------------------
Responded(route) == lastResponse # NoResult /\ lastResponse.route = route

\* a session that records the failure of its upload
RecordsFailure(s, error) ==
  /\ "failure" \in DOMAIN s
  /\ s.failure = [stage |-> error.stage, reason |-> error.cause]

\* C13: an upload that fails at any stage leaves a session in a recorded
\* Failed(stage, reason) state that can be inspected afterwards.
C13_FailedUploadIsRecorded ==
  (Responded("upload") /\ lastResponse.status = 500) =>
    \E id \in DOMAIN sessions : RecordsFailure(sessions[id], lastResponse.body.error)

NoDataStays ==
  \A id \in DOMAIN sessions :
    ~sessions[id].hasData => (id \notin DOMAIN sessions' \/ sessions'[id] = sessions[id])

NoDataRejected ==
  (Responded("generate") /\ HasSession(sessions, lastResponse.id)
     /\ ~sessions[lastResponse.id].hasData) =>
    /\ lastResponse.status = 400
    /\ lastResponse.body
         = [success |-> FALSE, message |-> "No dashboard data available for this session",
            reason |-> sessions[lastResponse.id].reason]

\* C14: a session without data is terminal: generate-dashboard for it is
\* rejected with the stored reason and no dashboard, and no step turns the
\* session into one with data (it can only be deleted).
C14_NoDataIsTerminal == [][NoDataStays /\ NoDataRejected']_vars

\* generate-dashboard has just been rejected for a stored session without data
C14_Witness ==
  /\ Responded("generate")
  /\ lastResponse.status = 400
  /\ HasSession(sessions, lastResponse.id)
  /\ ~sessions[lastResponse.id].hasData

ReadRoutes == {"session", "raw-data", "extracted-text", "generate"}

\* C15: no read of a session succeeds more than 24 hours after its creation.
C15_NoReadAfterExpiry ==
  (lastResponse # NoResult /\ lastResponse.route \in ReadRoutes /\ lastResponse.status = 200
     /\ HasSession(sessions, lastResponse.id)) =>
    now - sessions[lastResponse.id].uploadTime <= MaxAge

AbsentOrEmpty(list) == list = Undefined \/ list = Arr(<<>>)

AbsentOrNames(list) == list = Undefined \/ list = Arr(<<>>) \/ AllStrings(list)

\* a chart definition without measures or without dimensions
IsUnaggregated(def) ==
  /\ def.t = "obj"
  /\ AbsentOrNames(Member(def, K_measures))
  /\ AbsentOrNames(Member(def, K_dimensions))
  /\ (AbsentOrEmpty(Member(def, K_measures)) \/ AbsentOrEmpty(Member(def, K_dimensions)))

\* C21: for every chart definition without measures or without dimensions
\* (the list absent or empty) and a non-empty record list, a chart is emitted
\* for the definition, and its data is the first 20 records in their order.
C21_UnaggregatedChartIsFirstRecords ==
  (ChartsDone /\ NoNullChartDefinition /\ calcIn.data # <<>>) =>
    \A i \in 1..Len(ChartDefinitions.a) :
      IsUnaggregated(ChartDefinitions.a[i]) =>
        /\ calcOut.out.ok
        /\ HasChart(calcOut.out.v, i - 1)
        /\ ChartData(calcOut.out.v, i - 1) = Slice(calcIn.data, ChartLimit)

\* what the definition at position i (from 0) yields on its own: a chart,
\* null for no data point, or the error it raises
ChartAlone(i) ==
  ChartOf(ChartDefinitions.a[i + 1], i, prepareChartData(calcIn.data, ChartDefinitions.a[i + 1]))

YieldsChart(i) == ChartAlone(i).ok /\ ChartAlone(i).v # Null

DefinitionIndexes == 0..(Len(ChartDefinitions.a) - 1)

\* the position named by a chart's id
IdIndex(chart) == CHOOSE i \in DefinitionIndexes : Member(chart, K_id) = ChartId(i)

\* C22: every emitted chart has id chart_i, i the position of its definition
\* in the input list, so ids are unique and strictly increasing in the
\* output; a definition with zero data points or one that raises an error is
\* dropped without failing the batch, and every other chart is what its
\* definition yields on its own.
C22_ChartIdsFollowDefinitions ==
  (ChartsDone /\ ChartDefinitions.t = "arr") =>
    /\ calcOut.out.ok
    /\ \A i \in DefinitionIndexes : HasChart(calcOut.out.v, i) <=> YieldsChart(i)
    /\ \A c \in 1..Len(calcOut.out.v) :
         /\ \E i \in DefinitionIndexes : Member(calcOut.out.v[c], K_id) = ChartId(i)
         /\ calcOut.out.v[c] = ChartAlone(IdIndex(calcOut.out.v[c])).v
    /\ \A c, d \in 1..Len(calcOut.out.v) :
         c < d => IdIndex(calcOut.out.v[c]) < IdIndex(calcOut.out.v[d])

\* ------------------------------------------------------------------------
\* Properties of the reduction of a dense numeric text (Spec)
\* ------------------------------------------------------------------------
\* C23: for the 200,000-character text whose lines hold currency amounts and
\* percentages, preprocessLargeText returns the numeric-filtered lines
\* (strategy numericFilter): no summarization request is posted and no
\* best-chunk selection is made for it.
C23_DenseTextIsFiltered ==
  extractedText = DenseNumericText =>
    /\ \A i \in 1..Len(reductions) : reductions[i].strategy = "numericFilter"
    /\ \A i \in 1..Len(netLog) : netLog[i].stage # "summarize"
    /\ \A i \in 1..Len(callLog) : callLog[i].prompt.stage # "summarize"

\* ------------------------------------------------------------------------
\* Properties of the reduced text of a pass (Spec)
\* ------------------------------------------------------------------------
Reduced(caller) == {i \in 1..Len(reductions) : reductions[i].caller = caller}

\* C24: in one pass the reduced text is made once: what the classifier was
\* given and what the extraction prompt embeds are the same string, also
\* after an AI summarization, and once the classification request has been
\* posted the only requests that follow are the extraction request and the
\* configuration request.
C24_SingleReducedText ==
  /\ \A i \in Reduced("analyze") : \A j \in Reduced("extract") :
       reductions[j].content = reductions[i].content
  /\ \A i \in 1..Len(netLog) : \A j \in 1..Len(netLog) :
       (i < j /\ netLog[i].stage = "classify") => netLog[j].stage \in {"extract", "config"}
  /\ Cardinality({i \in 1..Len(netLog) : netLog[i].stage = "extract"}) <= 1

\* ------------------------------------------------------------------------
\* Properties of the sweep (SpecStore)
\* ------------------------------------------------------------------------
SweepRuns == nextSweep' # nextSweep

\* the sessions that are at most 24 hours old
NotOverAge(store, t) == {id \in DOMAIN store : t - store[id].uploadTime <= MaxAge}

\* when the sweep ran last (0: it has not run)
LastSweep == nextSweep - SweepPeriod

UploadAnswers == lastResponse' # NoResult /\ lastResponse'.route = "upload"

\* C27: the upload route adds a session if and only if it answers with
\* success: an upload answered with an error leaves the session map as it was.
C27_SessionIffSuccess ==
  [][UploadAnswers => (sessions' # sessions <=> lastResponse'.status = 200)]_vars

\* ------------------------------------------------------------------------
\* Properties of the grouping of a chart (SpecCalc)
\* ------------------------------------------------------------------------
\* a record has no value in the dimension
LacksDimension(row, dim) == Member(row, dim).t \in {"undef", "null"}

\* how many of the groups hold the record at position j of the list
GroupsHolding(groups, j) ==
  Cardinality({g \in 1..Len(groups) :
                 \E r \in 1..Len(groups[g].rows) : groups[g].rows[r] = calcIn.data[j]})

RECURSIVE GroupSizes(_)
GroupSizes(groups) == IF groups = <<>> THEN 0 ELSE Len(Head(groups).rows) + GroupSizes(Tail(groups))

\* every record is in one group and no other, the records without the
\* dimension in "Unknown", and the records of a group agree in the dimension
IsPartition(groups, dim) ==
  /\ GroupSizes(groups) = Len(calcIn.data)
  /\ \A j \in 1..Len(calcIn.data) : GroupsHolding(groups, j) = 1
  /\ \A g \in 1..Len(groups) : \A r \in 1..Len(groups[g].rows) :
       LacksDimension(groups[g].rows[r], dim) => groups[g].k = UnknownGroup
  /\ \A g \in 1..Len(groups) : \A r, s \in 1..Len(groups[g].rows) :
       LabelOf(groups[g].rows[r], dim) = LabelOf(groups[g].rows[s], dim)

RECURSIVE PointSum(_, _)
PointSum(points, measure) ==
  IF points = <<>> THEN 0
  ELSE Member(Head(points), measure).n + PointSum(Tail(points), measure)

\* the sums of the chart's points add up to the sum over all records
IsConserved(points, groups, measures) ==
  Len(groups) <= ChartLimit =>
    \A m \in 1..Len(measures) :
      Num(PointSum(points, measures[m].s)) = calculateSum(calcIn.data, measures[m]).v

GroupsOf(def) == groupBy(calcIn.data, Member(def, K_dimensions).a[1])

\* C28: for a definition with a measure and a dimension, groupBy places
\* every record in exactly one group (the records lacking the dimension in
\* "Unknown"), records with different values of the dimension never share a
\* group, and with at most 20 groups the sums of a measure over the chart's
\* data points add up to calculateSum of that measure over all records.
C28_GroupingConservesData ==
  (ChartsDone /\ NoNullChartDefinition /\ AllObjects(calcIn.data) /\ calcIn.data # <<>>) =>
    \A i \in 1..Len(ChartDefinitions.a) :
      IsAggregating(ChartDefinitions.a[i]) =>
        /\ GroupsOf(ChartDefinitions.a[i]).ok
        /\ IsPartition(GroupsOf(ChartDefinitions.a[i]).v,
                       Member(ChartDefinitions.a[i], K_dimensions).a[1].s)
        /\ HasChart(calcOut.out.v, i - 1)
        /\ IsConserved(ChartData(calcOut.out.v, i - 1), GroupsOf(ChartDefinitions.a[i]).v,
                       Member(ChartDefinitions.a[i], K_measures).a)

\* ------------------------------------------------------------------------
\* Properties of the size limits of the extracted text (SpecSize)
\* ------------------------------------------------------------------------
\* C30: the processedText of validateTextSize has at most maxChars
\* characters: a text within the limit is returned as it is with wasLimited
\* false, and a longer one is replaced by what truncateIntelligently makes
\* of it, which is within the limit.
C30_ProcessedTextWithinLimit ==
  textInfo # NoResult =>
    /\ StrLen(textInfo.processedText) <= maxChars
    /\ StrLen(textIn) <= maxChars => (textInfo.processedText = textIn /\ ~textInfo.wasLimited)
    /\ StrLen(textIn) > maxChars =>
         (textInfo.processedText = truncateIntelligently(textIn) /\ textInfo.wasLimited)

\* ------------------------------------------------------------------------
\* Properties of the shared DocumentProcessor (SpecDoc)
\* ------------------------------------------------------------------------
\* C26: with image uploads processed at the same time, the OCR worker is
\* created at most once, and recognize is never called on a worker whose
\* language loading and initialisation have not both completed.
C26_WorkerInitialisedOnce ==
  /\ Len(workers) <= 1
  /\ \A c \in ocrLog : c.ready

HasEnded(u) == jobs[u].pc \in {"returned", "thrown"}

\* C29: once processFile has returned or thrown, neither the uploaded file
\* nor the converted image of that upload is left on disk.
C29_NoFileRemains ==
  \A u \in Uploads :
    HasEnded(u) => (UploadedFile(u) \notin files /\ ProcessedImage(u) \notin files)

====
